---- MODULE Spec2Model ----
(***************************************************************************)
(* Model of the Weyra conversational core (src/src/utils/WeryaAI.ts and    *)
(* src/src/events/messageCreate.ts): the model-invocation loop             *)
(* (generateResponse), the tool dispatcher (executeTool) with its eight    *)
(* handlers, the reply pacer with its cooldown gate (replyToUser), and the *)
(* history / memory stores.  Every await of the code is a step boundary.   *)
(***************************************************************************)
EXTENDS Integers, Sequences, FiniteSets, TLC

(* ---------------------------------------------------------------------- *)
(* Bounds of the model                                                     *)
(* ---------------------------------------------------------------------- *)
OneMsg == 1           \* inbound messages handled in one run
MaxCalls == 2         \* longest tool_calls list of a model response
MaxTicks == 3         \* clock ticks in one run
PairMsgs == 2         \* inbound messages of one pair handled by concurrent tasks
MaxRows == 4          \* rows appended by direct operations on the history store
MaxFetch == 3         \* largest LIMIT of a direct operation on the history store

(* ---------------------------------------------------------------------- *)
(* Program constants                                                       *)
(* ---------------------------------------------------------------------- *)
globalCooldown == 2000     \* ms, multi-message reply cooldown
defaultCooldown == 1000    \* ms, default delay of entries after the first
historyLimit == 8          \* rows fetched by handleMessage
keepLast == 20             \* rows kept by cleanOldHistory
memoryLimit == 5           \* LIMIT of the memory search
TickMs == 1000             \* granularity of Date.now() in the model

Tasks == {"t1", "t2"}
Users == {"u1", "u2"}
Channels == {"c1", "d1"}       \* a server channel and a direct-message channel

Undefined == "<undefined>"     \* a missing JSON field / JS undefined
Null == "<null>"               \* JS null (message.content of a response)
NoNumber == -1                 \* a missing numeric field

(* ---------------------------------------------------------------------- *)
(* Values                                                                  *)
(* ---------------------------------------------------------------------- *)
\* content of a conversation entry: plain text, or one of the two tool turns
Text(s) == [text |-> s]
ExecutedText(name, result) == [tool |-> name, result |-> result]
FailedText(name, err) == [tool |-> name, failed |-> err]
Entry(role, content) == [role |-> role, content |-> content]

\* `x || ''` on a string-or-null value
OrEmpty(s) == IF s = Null \/ s = Undefined THEN "" ELSE s

\* JSON value of the `messages` argument
JUndef == [kind |-> "undefined"]
JStr(s) == [kind |-> "string", value |-> s]
JObj(content, cooldown) == [kind |-> "object", content |-> content, cooldown |-> cooldown]
JArr(items) == [kind |-> "array", items |-> items]

\* parsed arguments of a tool call; valid = FALSE is a string JSON.parse rejects
NoArgs ==
  [valid |-> TRUE, messages |-> JUndef, timeout |-> NoNumber, keywords |-> Undefined,
   content |-> Undefined, user_id |-> Undefined, timezone |-> Undefined,
   city |-> Undefined, confirm |-> Undefined]
BadJSON == [NoArgs EXCEPT !.valid = FALSE]
ToolCall(name, args) == [name |-> name, arguments |-> args]

CatalogNames ==
  {"reply_to_user", "get_memory", "save_memory", "get_user_info", "get_time",
   "get_weather", "get_server_info", "clear_history"}

\* tool calls the model may emit
ReplyCalls ==
  { ToolCall("reply_to_user", [NoArgs EXCEPT !.messages = JStr("a")]),
    ToolCall("reply_to_user", [NoArgs EXCEPT !.messages = JArr(<<JStr("a"), JStr("b")>>)]),
    ToolCall("reply_to_user", NoArgs),
    ToolCall("reply_to_user", [NoArgs EXCEPT !.messages = JArr(<<>>)]),
    ToolCall("reply_to_user",
             [NoArgs EXCEPT !.messages = JArr(<<JObj(Undefined, NoNumber), JObj("b", NoNumber)>>)]) }
StoreCalls ==
  { ToolCall("get_memory", NoArgs),
    ToolCall("get_memory", [NoArgs EXCEPT !.keywords = "k"]),
    ToolCall("save_memory", NoArgs),
    ToolCall("save_memory", [NoArgs EXCEPT !.keywords = "k", !.content = "m"]),
    ToolCall("clear_history", NoArgs),
    ToolCall("clear_history", [NoArgs EXCEPT !.confirm = "true"]) }
InfoCalls ==
  { ToolCall("get_user_info", NoArgs),
    ToolCall("get_time", NoArgs),
    ToolCall("get_time", [NoArgs EXCEPT !.timezone = "UTC"]),
    ToolCall("get_weather", NoArgs),
    ToolCall("get_weather", [NoArgs EXCEPT !.city = "x"]),
    ToolCall("get_server_info", NoArgs) }
OddCalls ==
  { ToolCall("bogus", NoArgs),
    ToolCall("bogus", BadJSON),
    ToolCall("get_time", BadJSON) }
ToolCalls == ReplyCalls \cup StoreCalls \cup InfoCalls \cup OddCalls

RECURSIVE SeqsUpTo(_, _)
SeqsUpTo(S, n) ==
  IF n = 0 THEN {<<>>}
  ELSE LET shorter == SeqsUpTo(S, n - 1)
       IN shorter \cup {Append(s, x) : s \in {q \in shorter : Len(q) = n - 1}, x \in S}

\* tool_calls of a response: absent, or a (possibly empty) list
NoToolCalls == [present |-> FALSE, list |-> <<>>]
ToolCallLists(calls, maxCalls) ==
  {NoToolCalls} \cup {[present |-> TRUE, list |-> l] : l \in SeqsUpTo(calls, maxCalls)}

\* tool_calls of the finalization response: the model may ask for a tool again
FinalToolCalls ==
  {NoToolCalls,
   [present |-> TRUE,
    list |-> <<ToolCall("reply_to_user", [NoArgs EXCEPT !.messages = JStr("a")])>>]}

\* inbound messages; the platform numbers them on arrival
Inbound ==
  { [id |-> 0, user |-> "u1", channel |-> "c1", content |-> "hi", guild |-> TRUE],
    [id |-> 0, user |-> "u2", channel |-> "c1", content |-> "hi", guild |-> TRUE],
    [id |-> 0, user |-> "u1", channel |-> "d1", content |-> "hi", guild |-> FALSE] }
NoMessage == [id |-> 0, user |-> "", channel |-> "", content |-> "", guild |-> FALSE]
NoResponse == [content |-> Null, tool_calls |-> NoToolCalls]
NoGen == [status |-> "none"]
NoProbe == [op |-> "none"]

VARIABLES
  now,              \* Date.now(), ms
  cooldowns,        \* WeyraAI.cooldowns: user -> lastUsed, or NoNumber when absent
  message_history,  \* table message_history, in insertion order
  memories,         \* table memories, in insertion order
  nextId,           \* SERIAL of message_history
  sent,             \* messages delivered by the platform, in order
  received,         \* number of inbound messages taken so far
  gates,            \* decisions of the cooldown gate, in order (observation only)
  pc,               \* per task: position in run / handleMessage / generateResponse
  msg,              \* per task: the inbound message
  messages,         \* per task: the conversation array
  first,            \* per task: choice.message of the first model call
  final,            \* per task: choices[0].message of the finalization call
  i,                \* per task: index into tool_calls
  modelCalls,       \* per task: the model calls issued in this cycle
  gen,              \* per task: how generateResponse ended
  normalizedMessages, \* per task: replyToUser's normalized list
  j,                \* per task: index into normalizedMessages
  wakeAt,           \* per task: end of the pending setTimeout
  trace,            \* per task: effects of the cycle, in order
  times,            \* per task: Date.now() at each effect of trace (observation only)
  fallbacks,        \* per task: fallback replies attempted for the message (observation only)
  probe             \* the last direct operation on the history store and its outcome

vars == <<now, cooldowns, message_history, memories, nextId, sent, received, gates, pc, msg,
          messages, first, final, i, modelCalls, gen, normalizedMessages, j, wakeAt,
          trace, times, fallbacks, probe>>

globals == <<now, cooldowns, message_history, memories, nextId, sent, received, gates, probe>>

Init ==
  /\ now = 0
  /\ cooldowns = [u \in Users |-> NoNumber]
  /\ message_history = <<>>
  /\ memories = <<>>
  /\ nextId = 1
  /\ sent = <<>>
  /\ received = 0
  /\ gates = <<>>
  /\ pc = [t \in Tasks |-> "idle"]
  /\ msg = [t \in Tasks |-> NoMessage]
  /\ messages = [t \in Tasks |-> <<>>]
  /\ first = [t \in Tasks |-> NoResponse]
  /\ final = [t \in Tasks |-> NoResponse]
  /\ i = [t \in Tasks |-> 0]
  /\ modelCalls = [t \in Tasks |-> <<>>]
  /\ gen = [t \in Tasks |-> NoGen]
  /\ normalizedMessages = [t \in Tasks |-> <<>>]
  /\ j = [t \in Tasks |-> 0]
  /\ wakeAt = [t \in Tasks |-> 0]
  /\ trace = [t \in Tasks |-> <<>>]
  /\ times = [t \in Tasks |-> <<>>]
  /\ fallbacks = [t \in Tasks |-> 0]
  /\ probe = NoProbe


(* ---------------------------------------------------------------------- *)
(* History store                                                           *)
(* ---------------------------------------------------------------------- *)
Row(id, user, channel, role, content) ==
  [id |-> id, user_id |-> user, channel_id |-> channel, role |-> role, content |-> content]

LastN(s, n) == IF Len(s) <= n THEN s ELSE SubSeq(s, Len(s) - n + 1, Len(s))

\* INSERT INTO message_history
saveMessageToHistory(hist, id, user, channel, role, content) ==
  Append(hist, Row(id, user, channel, role, content))

\* variant: the oldest rows of the pair instead of the most recent
getMessageHistoryMutant(hist, user, channel, limit) ==
  LET own == SelectSeq(hist, LAMBDA r : r.user_id = user /\ r.channel_id = channel)
  IN IF Len(own) <= limit THEN own ELSE SubSeq(own, 1, limit)

\* SELECT ... ORDER BY created_at DESC LIMIT n, then reverse()
getMessageHistory(hist, user, channel, limit) ==
  LastN(SelectSeq(hist, LAMBDA r : r.user_id = user /\ r.channel_id = channel), limit)

\* the messages array of handleMessage: prompt, history, the inbound turn
SystemPrompt == Entry("system", Text("prompt"))
HistoryEntries(rows) == [k \in 1..Len(rows) |-> Entry(rows[k].role, Text(rows[k].content))]
buildMessages(rows, content) ==
  <<SystemPrompt>> \o HistoryEntries(rows) \o
  (IF Len(rows) = 0 \/ rows[Len(rows)].content # content
     THEN <<Entry("user", Text(content))>> ELSE <<>>)

(* ---------------------------------------------------------------------- *)
(* Effects recorded per cycle: call = index of the tool call, 0 outside   *)
(* ---------------------------------------------------------------------- *)
Ev(call, what) == [call |-> call, ev |-> what]
Log(t, evs) ==
  /\ trace' = [trace EXCEPT ![t] = @ \o evs]
  /\ times' = [times EXCEPT ![t] = @ \o [k \in 1..Len(evs) |-> now]]

(* ---------------------------------------------------------------------- *)
(* messageCreate.run and the head of handleMessage                        *)
(* ---------------------------------------------------------------------- *)
taskVars == <<msg, messages, first, final, i, modelCalls, gen, normalizedMessages, j,
              wakeAt, trace, times, fallbacks>>

\* the locals of generateResponse and replyToUser
cycleVars == <<messages, first, final, i, modelCalls, normalizedMessages, j, wakeAt, trace,
               times>>

\* generateResponse has returned: its locals are dead from here on
Forget(t) ==
  /\ messages' = [messages EXCEPT ![t] = <<>>]
  /\ first' = [first EXCEPT ![t] = NoResponse]
  /\ final' = [final EXCEPT ![t] = NoResponse]
  /\ i' = [i EXCEPT ![t] = 0]
  /\ modelCalls' = [modelCalls EXCEPT ![t] = <<>>]
  /\ normalizedMessages' = [normalizedMessages EXCEPT ![t] = <<>>]
  /\ j' = [j EXCEPT ![t] = 0]
  /\ wakeAt' = [wakeAt EXCEPT ![t] = 0]
  /\ trace' = [trace EXCEPT ![t] = <<>>]
  /\ times' = [times EXCEPT ![t] = <<>>]

\* an inbound message addressed to the bot starts an independent task
Receive(t, env) ==
  /\ pc[t] \in {"idle", "done", "crashed"}
  /\ received < env.maxMsgs
  /\ \E m \in env.inbound : msg' = [msg EXCEPT ![t] = [m EXCEPT !.id = received + 1]]
  /\ received' = received + 1
  /\ pc' = [pc EXCEPT ![t] = "mark"]
  /\ gen' = [gen EXCEPT ![t] = NoGen]
  /\ fallbacks' = [fallbacks EXCEPT ![t] = 0]
  /\ UNCHANGED <<now, probe, cooldowns, message_history, memories, nextId, sent, gates, cycleVars>>

\* await database.markChannelActive(channelId)
MarkChannelActive(t) ==
  /\ pc[t] = "mark"
  /\ \E ok \in BOOLEAN : pc' = [pc EXCEPT ![t] = IF ok THEN "typing" ELSE "outerCatch"]
  /\ UNCHANGED <<globals, taskVars>>

\* await message.guild(); await client.channels.typing(channelId)
StartTyping(t) ==
  /\ pc[t] = "typing"
  /\ \E ok \in BOOLEAN : pc' = [pc EXCEPT ![t] = IF ok THEN "saveUser" ELSE "catch"]
  /\ UNCHANGED <<globals, taskVars>>

\* variant: a failed INSERT is thrown to the caller
afterAppendMutant(ok, next) == IF ok THEN next ELSE "catch"

\* where the caller of saveMessageToHistory goes on: the catch of the method
\* logs a failed INSERT and returns normally
afterAppend(ok, next) == next

\* await this.saveMessageToHistory(userId, channelId, 'user', content)
SaveUserMessage(t) ==
  /\ pc[t] = "saveUser"
  /\ \E ok \in BOOLEAN :
       /\ IF ok
            THEN /\ message_history' =
                      saveMessageToHistory(message_history, nextId, msg[t].user,
                                           msg[t].channel, "user", msg[t].content)
                 /\ nextId' = nextId + 1
            ELSE UNCHANGED <<message_history, nextId>>
       /\ pc' = [pc EXCEPT ![t] = afterAppend(ok, "fetch")]
  /\ UNCHANGED <<now, probe, cooldowns, memories, sent, received, gates, taskVars>>

\* const history = await this.getMessageHistory(userId, channelId, 8); build messages
BuildContext(t) ==
  /\ pc[t] = "fetch"
  /\ \E ok \in BOOLEAN :
       LET rows == IF ok
                     THEN getMessageHistory(message_history, msg[t].user,
                                            msg[t].channel, historyLimit)
                     ELSE <<>>
       IN messages' = [messages EXCEPT ![t] = buildMessages(rows, msg[t].content)]
  /\ pc' = [pc EXCEPT ![t] = "call1"]
  /\ UNCHANGED <<globals, msg, fallbacks, first, final, i, modelCalls, gen, normalizedMessages, j,
                 wakeAt, trace, times>>

(* ---------------------------------------------------------------------- *)
(* generateResponse                                                        *)
(* ---------------------------------------------------------------------- *)
Contents == {Null, "r"}
ModelCall(withTools, conv, ok) == [tools |-> withTools, messages |-> conv, ok |-> ok]
Returned(text) == [status |-> "returned", text |-> text]
Threw(err) == [status |-> "threw", error |-> err]
Err(kind) == [kind |-> kind]

\* variant: the catch block swallows the error and returns an empty text
rethrowMutant(err) == Returned("")

\* `catch (error) { ...; throw error }` of generateResponse
rethrow(err) == Threw(err)

\* variant: a rejection of generateResponse is never delivered to its caller
AfterMutant(g) == IF g.status = "threw" THEN "pending" ELSE "reply"

\* where handleMessage continues once generateResponse has ended
After(g) == IF g.status = "threw" THEN "catch" ELSE "reply"

\* variant: the loop stops one call early
loopDoneMutant(k, n) == k >= n

\* the for-of loop over tool_calls is exhausted
loopDone(k, n) == k > n

\* `if (choice.message.tool_calls && context)`: an array, even an empty one, is truthy
entersToolBranch(toolCalls) == toolCalls.present

\* first model call: tools attached, tool_choice auto
FirstCall(t, env) ==
  /\ pc[t] = "call1"
  /\ Log(t, <<Ev(0, "model")>>)
  /\ \/ \* the call fails, or the response has no choice: thrown to the caller
        /\ \E err \in {"UpstreamFailure", "NoResponse"} :
             /\ modelCalls' = [modelCalls EXCEPT ![t] =
                                Append(@, ModelCall(TRUE, messages[t], err = "NoResponse"))]
             /\ gen' = [gen EXCEPT ![t] = rethrow(Err(err))]
        /\ pc' = [pc EXCEPT ![t] = After(gen'[t])]
        /\ UNCHANGED <<first, i>>
     \/ \E c \in Contents, tc \in ToolCallLists(env.calls, env.maxCalls) :
          /\ modelCalls' = [modelCalls EXCEPT ![t] =
                             Append(@, ModelCall(TRUE, messages[t], TRUE))]
          /\ first' = [first EXCEPT ![t] = [content |-> c, tool_calls |-> tc]]
          /\ IF entersToolBranch(tc)
               THEN /\ i' = [i EXCEPT ![t] = 1]
                    /\ pc' = [pc EXCEPT ![t] = "loop"]
                    /\ UNCHANGED gen
               ELSE /\ gen' = [gen EXCEPT ![t] = Returned(OrEmpty(c))]
                    /\ pc' = [pc EXCEPT ![t] = "reply"]
                    /\ UNCHANGED i
  /\ UNCHANGED <<globals, msg, fallbacks, messages, final, normalizedMessages, j, wakeAt>>

\* variant: the finalization call repeats the tool definitions of the first call
finalCallToolsMutant == TRUE

\* whether the finalization call carries the tool definitions
finalCallTools == FALSE

\* after the loop: one more model call, its content is returned
FinalCall(t) ==
  /\ pc[t] = "loop"
  /\ loopDone(i[t], Len(first[t].tool_calls.list))
  /\ Log(t, <<Ev(0, "model")>>)
  /\ \/ /\ modelCalls' = [modelCalls EXCEPT ![t] =
                             Append(@, ModelCall(finalCallTools, messages[t], FALSE))]
        /\ gen' = [gen EXCEPT ![t] = rethrow(Err("UpstreamFailure"))]
        /\ pc' = [pc EXCEPT ![t] = After(gen'[t])]
        /\ UNCHANGED final
     \/ \E c \in Contents, tc \in FinalToolCalls :
          \* `finalResponse.choices[0]?.message?.content || ''`: tool_calls is not read
          /\ modelCalls' = [modelCalls EXCEPT ![t] =
                             Append(@, ModelCall(finalCallTools, messages[t], TRUE))]
          /\ final' = [final EXCEPT ![t] = [content |-> c, tool_calls |-> tc]]
          /\ gen' = [gen EXCEPT ![t] = Returned(OrEmpty(c))]
          /\ pc' = [pc EXCEPT ![t] = "reply"]
  /\ UNCHANGED <<globals, msg, fallbacks, messages, first, i, normalizedMessages, j, wakeAt>>

(* ---------------------------------------------------------------------- *)
(* executeTool                                                             *)
(* ---------------------------------------------------------------------- *)
\* variant: a switch without default branch, falling into the last handler
executeToolMutant(call) ==
  IF ~call.arguments.valid THEN "SyntaxError"
  ELSE IF call.name \in CatalogNames THEN call.name
  ELSE "clear_history"

\* JSON.parse(args), then the switch on the name
executeTool(call) ==
  IF ~call.arguments.valid THEN "SyntaxError"
  ELSE IF call.name \in CatalogNames THEN call.name
  ELSE "UnknownTool"

\* variant: only the system turn is pushed
pushToolResultMutant(conv, content, name, result) ==
  Append(conv, Entry("system", ExecutedText(name, result)))

\* the two push() of the success branch of the loop
pushToolResult(conv, content, name, result) ==
  conv \o <<Entry("assistant", Text(OrEmpty(content))),
            Entry("system", ExecutedText(name, result))>>

\* variant: the catch branch only logs the failure
pushToolErrorMutant(conv, name, err) == conv

\* the push() of the catch branch of the loop
pushToolError(conv, name, err) ==
  Append(conv, Entry("system", FailedText(name, err)))

\* index the loop moves to after tool call k
nextToolIndex(k) == k + 1

CurrentCall(t) == first[t].tool_calls.list[i[t]]
AtTool(t, name) ==
  /\ pc[t] = "loop"
  /\ ~loopDone(i[t], Len(first[t].tool_calls.list))
  /\ i[t] <= Len(first[t].tool_calls.list)
  /\ executeTool(CurrentCall(t)) = name

\* executeTool resolved: back in the loop of generateResponse
ToolReturns(t, result, evs) ==
  /\ messages' = [messages EXCEPT ![t] =
                    pushToolResult(@, first[t].content, CurrentCall(t).name, result)]
  /\ i' = [i EXCEPT ![t] = nextToolIndex(@)]
  /\ pc' = [pc EXCEPT ![t] = "loop"]
  /\ Log(t, evs \o <<Ev(i[t], "end")>>)

\* executeTool rejected: caught in the loop of generateResponse
ToolThrows(t, err, evs) ==
  /\ messages' = [messages EXCEPT ![t] = pushToolError(@, CurrentCall(t).name, err)]
  /\ i' = [i EXCEPT ![t] = nextToolIndex(@)]
  /\ pc' = [pc EXCEPT ![t] = "loop"]
  /\ Log(t, evs \o <<Ev(i[t], "fail")>>)

Start(t) == <<Ev(i[t], "start")>>

\* arguments that do not parse, or a name outside the catalog
DispatchError(t) ==
  /\ \E kind \in {"SyntaxError", "UnknownTool"} :
       /\ AtTool(t, kind)
       /\ ToolThrows(t, Err(kind), Start(t))
  /\ UNCHANGED <<globals, msg, fallbacks, first, final, modelCalls, gen, normalizedMessages, j, wakeAt>>

(* ---------------------------------------------------------------------- *)
(* Memory store                                                            *)
(* ---------------------------------------------------------------------- *)
FirstN(s, n) == IF Len(s) <= n THEN s ELSE SubSeq(s, 1, n)

\* `user_id = context.user.id` in the destructuring of the arguments
memoryUser(args, user) == IF args.user_id = Undefined THEN user ELSE args.user_id

\* SELECT * FROM memories WHERE user_id = $1 AND keywords match $2 LIMIT 5
\* (an undefined parameter is sent as NULL and matches no row)
searchMemories(mem, user, keywords) ==
  FirstN(SelectSeq(mem, LAMBDA r : r.user_id = user /\ keywords # Undefined
                                     /\ r.keywords = keywords), memoryLimit)

getMemory(t) ==
  /\ AtTool(t, "get_memory")
  /\ LET args == CurrentCall(t).arguments
         rows == searchMemories(memories, memoryUser(args, msg[t].user), args.keywords)
     IN \/ ToolReturns(t, [found |-> Len(rows) > 0, memories |-> rows,
                           search_keywords |-> args.keywords],
                       Start(t) \o <<Ev(i[t], "query")>>)
        \/ ToolThrows(t, Err("UpstreamFailure"), Start(t) \o <<Ev(i[t], "query")>>)
  /\ UNCHANGED <<globals, msg, fallbacks, first, final, modelCalls, gen, normalizedMessages, j, wakeAt>>

\* INSERT INTO memories ... RETURNING id; keywords and content are NOT NULL
saveMemory(t) ==
  /\ AtTool(t, "save_memory")
  /\ LET args == CurrentCall(t).arguments
         id == Len(memories) + 1
     IN \/ /\ args.keywords # Undefined /\ args.content # Undefined
           /\ memories' = Append(memories,
                [id |-> id, user_id |-> memoryUser(args, msg[t].user),
                 keywords |-> args.keywords, content |-> args.content])
           /\ ToolReturns(t, [success |-> TRUE, memory_id |-> id, keywords |-> args.keywords],
                          Start(t) \o <<Ev(i[t], "query"), Ev(i[t], "insert")>>)
        \/ /\ UNCHANGED memories
           /\ ToolThrows(t, Err("UpstreamFailure"), Start(t) \o <<Ev(i[t], "query")>>)
  /\ UNCHANGED <<now, probe, cooldowns, message_history, nextId, sent, received, gates,
                 msg, fallbacks, first, final, modelCalls, gen, normalizedMessages, j, wakeAt>>

(* ---------------------------------------------------------------------- *)
(* Read-only tools                                                         *)
(* ---------------------------------------------------------------------- *)
\* the requesting user is answered from the context, any other one is fetched
getUserInfo(t) ==
  /\ AtTool(t, "get_user_info")
  /\ LET args == CurrentCall(t).arguments
         id == memoryUser(args, msg[t].user)
     IN IF id = msg[t].user
          THEN ToolReturns(t, [id |-> id], Start(t))
          ELSE \/ ToolReturns(t, [id |-> id], Start(t) \o <<Ev(i[t], "fetch")>>)
               \/ ToolThrows(t, Err("UpstreamFailure"), Start(t) \o <<Ev(i[t], "fetch")>>)
  /\ UNCHANGED <<globals, msg, fallbacks, first, final, modelCalls, gen, normalizedMessages, j, wakeAt>>

\* Intl.DateTimeFormat with timeZone undefined formats in the default zone
getTime(t) ==
  /\ AtTool(t, "get_time")
  /\ ToolReturns(t, [timezone |-> CurrentCall(t).arguments.timezone], Start(t))
  /\ UNCHANGED <<globals, msg, fallbacks, first, final, modelCalls, gen, normalizedMessages, j, wakeAt>>

\* fetch(`https://wttr.in/${encodeURIComponent(city)}?format=j1`)
getWeather(t) ==
  /\ AtTool(t, "get_weather")
  /\ \/ ToolReturns(t, [city |-> CurrentCall(t).arguments.city],
                    Start(t) \o <<Ev(i[t], "fetch")>>)
     \/ ToolThrows(t, Err("UpstreamFailure"), Start(t) \o <<Ev(i[t], "fetch")>>)
  /\ UNCHANGED <<globals, msg, fallbacks, first, final, modelCalls, gen, normalizedMessages, j, wakeAt>>

\* what `await message.guild()` yields: the guild, or undefined outside a server
guildOf(m) == IF m.guild THEN [kind |-> "guild", id |-> "g1"] ELSE [kind |-> "undefined"]

\* `message.guild()` itself: the platform library fetches the guild and hands
\* back a promise (handleMessage awaits it); getServerInfo uses it as it is
guildLookup(m) == [kind |-> "promise", of |-> guildOf(m)]

\* `!guild`: an object, a promise included, is truthy
falsy(v) == v.kind = "undefined"

\* `guild.id`: a promise has no such property
guildId(v) == IF v.kind = "guild" THEN v.id ELSE Undefined

\* `new Date(parseInt(id) / 4194304 + 1420070400000).toISOString()` throws a
\* RangeError on the NaN that parseInt(undefined) gives
validSnowflake(id) == id # Undefined

getServerInfo(t) ==
  /\ AtTool(t, "get_server_info")
  /\ LET guild == guildLookup(msg[t])
     IN IF falsy(guild)
          THEN ToolThrows(t, Err("NotInServer"), Start(t))
          ELSE IF validSnowflake(guildId(guild))
                 THEN ToolReturns(t, [id |-> guildId(guild)], Start(t))
                 ELSE ToolThrows(t, Err("RangeError"), Start(t))
  /\ UNCHANGED <<globals, msg, fallbacks, first, final, modelCalls, gen, normalizedMessages, j, wakeAt>>

(* ---------------------------------------------------------------------- *)
(* clear_history and pruning                                               *)
(* ---------------------------------------------------------------------- *)
OfPair(r, user, channel) == r.user_id = user /\ r.channel_id = channel

\* variant: the DELETE is restricted to the user only
deleteHistoryMutant(hist, user, channel) ==
  SelectSeq(hist, LAMBDA r : r.user_id # user)

\* DELETE FROM message_history WHERE user_id = $1 AND channel_id = $2
deleteHistory(hist, user, channel) ==
  SelectSeq(hist, LAMBDA r : ~OfPair(r, user, channel))

\* variant: the DELETE is not restricted to the pair
cleanOldHistoryMutant(hist, user, channel, keep) ==
  LET recent == getMessageHistory(hist, user, channel, keep)
      kept == {recent[k].id : k \in 1..Len(recent)}
  IN SelectSeq(hist, LAMBDA r : r.id \in kept)

\* DELETE ... AND id NOT IN (the keepLast most recent ids of the pair)
cleanOldHistory(hist, user, channel, keep) ==
  LET recent == getMessageHistory(hist, user, channel, keep)
      kept == {recent[k].id : k \in 1..Len(recent)}
  IN SelectSeq(hist, LAMBDA r : ~OfPair(r, user, channel) \/ r.id \in kept)

\* variant: any confirm value but an absent one passes
confirmedMutant(args) == args.confirm # Undefined

\* `if (!confirm)`
confirmed(args) == args.confirm = "true"

clearHistory(t) ==
  /\ AtTool(t, "clear_history")
  /\ LET args == CurrentCall(t).arguments
         left == deleteHistory(message_history, msg[t].user, msg[t].channel)
         n == Len(message_history) - Len(left)
     IN IF ~confirmed(args)
          THEN /\ ToolThrows(t, Err("ConfirmationRequired"), Start(t))
               /\ UNCHANGED message_history
          ELSE \/ /\ message_history' = left
                  /\ ToolReturns(t, [success |-> TRUE, messages_deleted |-> n],
                                 Start(t) \o <<Ev(i[t], "query")>> \o
                                 [k \in 1..n |-> Ev(i[t], "delete")])
               \/ /\ UNCHANGED message_history
                  /\ ToolThrows(t, Err("UpstreamFailure"), Start(t) \o <<Ev(i[t], "query")>>)
  /\ UNCHANGED <<now, probe, cooldowns, memories, nextId, sent, received, gates,
                 msg, fallbacks, first, final, modelCalls, gen, normalizedMessages, j, wakeAt>>


(* ---------------------------------------------------------------------- *)
(* replyToUser                                                             *)
(* ---------------------------------------------------------------------- *)
\* `typeof messages === 'string'` or `Array.isArray(messages)`
messagesAccepted(m) == m.kind \in {"string", "array"}

\* variant: no default delay for later entries
defaultDelayMutant(k) == 0

\* default delay of the entry at (1-based) position k
defaultDelay(k) == IF k > 1 THEN defaultCooldown ELSE 0

\* `msg.cooldown || default`: a missing or zero cooldown takes the default
entryDelay(item, k) ==
  IF item.kind = "string" THEN defaultDelay(k)
  ELSE IF item.cooldown # NoNumber /\ item.cooldown # 0 THEN item.cooldown
  ELSE defaultDelay(k)

entryContent(item) == IF item.kind = "string" THEN item.value ELSE item.content

normalize(m) ==
  IF m.kind = "string" THEN <<[content |-> m.value, cooldown |-> 0]>>
  ELSE [k \in 1..Len(m.items) |->
          [content |-> entryContent(m.items[k]), cooldown |-> entryDelay(m.items[k], k)]]

\* variant: the gate applies to every reply
gatedMutant(norm) == Len(norm) >= 1

\* `normalizedMessages.length > 1`
gated(norm) == Len(norm) > 1

\* variant: the comparison of the gate is inverted
gateRejectsMutant(cd, user, time) ==
  cd[user] # NoNumber /\ time - cd[user] > globalCooldown

\* `lastUsed && Date.now() - lastUsed.lastUsed < globalCooldown`
gateRejects(cd, user, time) ==
  cd[user] # NoNumber /\ time - cd[user] < globalCooldown

\* Math.ceil((globalCooldown - elapsed) / 1000)
waitSeconds(cd, user, time) == (globalCooldown - (time - cd[user]) + 999) \div 1000

RateLimited(n) == [kind |-> "RateLimited", wait |-> n]

\* `const { messages, timeout = 0 } = args`
leadingTimeout(args) == IF args.timeout = NoNumber THEN 0 ELSE args.timeout

\* variant: a call that passes the gate does not record its time
cooldownsSetMutant(cd, user, time) == cd

\* `this.cooldowns.set(cooldownKey, { userId, lastUsed: Date.now() })`
cooldownsSet(cd, user, time) == [cd EXCEPT ![user] = time]

\* normalization and the cooldown gate: no await in between
replyToUser(t) ==
  /\ AtTool(t, "reply_to_user")
  /\ LET args == CurrentCall(t).arguments
         user == msg[t].user
     IN IF ~messagesAccepted(args.messages)
          THEN /\ ToolThrows(t, Err("ValidationError"), Start(t))
               /\ UNCHANGED <<cooldowns, gates, normalizedMessages, j, wakeAt>>
          ELSE LET norm == normalize(args.messages)
                   gate(ok) == [user |-> user, at |-> now, ok |-> ok, task |-> t,
                                message |-> msg[t].id, call |-> i[t]]
               IN IF gated(norm) /\ gateRejects(cooldowns, user, now)
                    THEN /\ ToolThrows(t, RateLimited(waitSeconds(cooldowns, user, now)),
                                       Start(t))
                         /\ gates' = Append(gates, gate(FALSE))
                         /\ UNCHANGED <<cooldowns, normalizedMessages, j, wakeAt>>
                    ELSE /\ IF gated(norm)
                              THEN /\ cooldowns' = cooldownsSet(cooldowns, user, now)
                                   /\ gates' = Append(gates, gate(TRUE))
                                   /\ Log(t, Start(t) \o <<Ev(i[t], "cooldown")>>)
                              ELSE /\ UNCHANGED <<cooldowns, gates>>
                                   /\ Log(t, Start(t))
                         /\ normalizedMessages' = [normalizedMessages EXCEPT ![t] = norm]
                         /\ j' = [j EXCEPT ![t] = 1]
                         /\ wakeAt' = [wakeAt EXCEPT ![t] = now + leadingTimeout(args)]
                         /\ pc' = [pc EXCEPT ![t] =
                                     IF Len(norm) = 0 THEN "replyDone"
                                     ELSE IF leadingTimeout(args) > 0 THEN "replySleep"
                                     ELSE "replySend"]
                         /\ UNCHANGED <<messages, i>>
  /\ UNCHANGED <<now, probe, message_history, memories, nextId, sent, received,
                 msg, fallbacks, first, final, modelCalls, gen>>

\* variant: the timer resolves at once
timerFiredMutant(wake, time) == TRUE

\* `setTimeout(resolve, ms)`: resolved once ms have passed
timerFired(wake, time) == time >= wake

\* the pending setTimeout fires
ReplyWake(t) ==
  /\ pc[t] = "replySleep"
  /\ timerFired(wakeAt[t], now)
  /\ pc' = [pc EXCEPT ![t] = "replySend"]
  /\ UNCHANGED <<globals, taskVars>>

Delivered(m, content, zwsp) ==
  [to |-> m.id, channel |-> m.channel, user |-> m.user, content |-> content, zwsp |-> zwsp]

\* variant: a failed send gives the user's cooldown back before it is rethrown
ReplySendMutant(t) ==
  /\ pc[t] = "replySend"
  /\ LET content == normalizedMessages[t][j[t]].content
     IN \/ /\ content # Undefined
           /\ sent' = Append(sent, Delivered(msg[t], content, FALSE))
           /\ Log(t, <<Ev(i[t], "send")>>)
           /\ pc' = [pc EXCEPT ![t] = "replySave"]
           /\ UNCHANGED <<messages, i, cooldowns>>
        \/ /\ UNCHANGED sent
           /\ cooldowns' = [cooldowns EXCEPT ![msg[t].user] = NoNumber]
           /\ ToolThrows(t, Err("UpstreamFailure"), <<Ev(i[t], "sendfail")>>)
  /\ UNCHANGED <<now, probe, message_history, memories, nextId, received, gates,
                 msg, fallbacks, first, final, modelCalls, gen, normalizedMessages, j, wakeAt>>

\* await context.message.reply({ content }); the platform rejects a message
\* without content
ReplySend(t) ==
  /\ pc[t] = "replySend"
  /\ LET content == normalizedMessages[t][j[t]].content
     IN \/ /\ content # Undefined
           /\ sent' = Append(sent, Delivered(msg[t], content, FALSE))
           /\ Log(t, <<Ev(i[t], "send")>>)
           /\ pc' = [pc EXCEPT ![t] = "replySave"]
           /\ UNCHANGED <<messages, i>>
        \/ /\ UNCHANGED sent
           /\ ToolThrows(t, Err("UpstreamFailure"), <<Ev(i[t], "sendfail")>>)
  /\ UNCHANGED <<now, probe, cooldowns, message_history, memories, nextId, received, gates,
                 msg, fallbacks, first, final, modelCalls, gen, normalizedMessages, j, wakeAt>>

\* `Message ${i + 1} sent successfully (cooldown: ${cooldown}ms)` for every entry
replyResults(norm) == [k \in 1..Len(norm) |-> [message |-> k, cooldown |-> norm[k].cooldown]]
replyResult(norm) == [success |-> TRUE, messages_sent |-> Len(norm), results |-> replyResults(norm)]

\* await this.saveMessageToHistory(..., 'assistant', content); then the next
\* entry's delay, or the return
ReplySave(t) ==
  /\ pc[t] = "replySave"
  /\ LET norm == normalizedMessages[t]
         content == norm[j[t]].content
     IN /\ \E ok \in BOOLEAN :
             IF ok
               THEN /\ message_history' =
                         saveMessageToHistory(message_history, nextId, msg[t].user,
                                              msg[t].channel, "assistant", content)
                    /\ nextId' = nextId + 1
                    /\ IF j[t] = Len(norm)
                         THEN ToolReturns(t, replyResult(norm),
                                          <<Ev(i[t], "query"), Ev(i[t], "insert")>>)
                         ELSE /\ Log(t, <<Ev(i[t], "query"), Ev(i[t], "insert")>>)
                              /\ UNCHANGED <<messages, i>>
               ELSE /\ UNCHANGED <<message_history, nextId>>
                    /\ IF j[t] = Len(norm)
                         THEN ToolReturns(t, replyResult(norm), <<Ev(i[t], "query")>>)
                         ELSE /\ Log(t, <<Ev(i[t], "query")>>)
                              /\ UNCHANGED <<messages, i>>
        /\ IF j[t] = Len(norm)
             THEN UNCHANGED <<j, wakeAt>>
             ELSE /\ j' = [j EXCEPT ![t] = @ + 1]
                  /\ wakeAt' = [wakeAt EXCEPT ![t] = now + norm[j[t] + 1].cooldown]
                  /\ pc' = [pc EXCEPT ![t] =
                              IF norm[j[t] + 1].cooldown > 0 THEN "replySleep" ELSE "replySend"]
  /\ UNCHANGED <<now, probe, cooldowns, memories, sent, received, gates,
                 msg, fallbacks, first, final, modelCalls, gen, normalizedMessages>>

\* an empty array: nothing to send
ReplyEmpty(t) ==
  /\ pc[t] = "replyDone"
  /\ ToolReturns(t, replyResult(normalizedMessages[t]), <<>>)
  /\ UNCHANGED <<globals, msg, fallbacks, first, final, modelCalls, gen, normalizedMessages, j, wakeAt>>

(* ---------------------------------------------------------------------- *)
(* The tail of handleMessage and the two catch blocks                      *)
(* ---------------------------------------------------------------------- *)
\* variant: the reply is sent without the `if (response)` test
SendReplyMutant(t) ==
  /\ pc[t] = "reply"
  /\ gen[t].status = "returned"
  /\ \/ /\ sent' = Append(sent, Delivered(msg[t], gen[t].text, TRUE))
        /\ pc' = [pc EXCEPT ![t] = "saveAssistant"]
     \/ /\ pc' = [pc EXCEPT ![t] = "catch"]
        /\ UNCHANGED sent
  /\ Forget(t)
  /\ UNCHANGED <<now, probe, cooldowns, message_history, memories, nextId, received, gates, msg, fallbacks, gen>>

\* `if (response) await message.reply({ content: response + ZWSP })`
SendReply(t) ==
  /\ pc[t] = "reply"
  /\ gen[t].status = "returned"
  /\ IF gen[t].text = ""
       THEN /\ pc' = [pc EXCEPT ![t] = "prune"]
            /\ UNCHANGED sent
       ELSE \/ /\ sent' = Append(sent, Delivered(msg[t], gen[t].text, TRUE))
               /\ pc' = [pc EXCEPT ![t] = "saveAssistant"]
            \/ /\ pc' = [pc EXCEPT ![t] = "catch"]
               /\ UNCHANGED sent
  /\ Forget(t)
  /\ UNCHANGED <<now, probe, cooldowns, message_history, memories, nextId, received, gates, msg, fallbacks, gen>>

\* await this.saveMessageToHistory(userId, channelId, 'assistant', response)
SaveAssistant(t) ==
  /\ pc[t] = "saveAssistant"
  /\ \E ok \in BOOLEAN :
       /\ IF ok
            THEN /\ message_history' =
                      saveMessageToHistory(message_history, nextId, msg[t].user,
                                           msg[t].channel, "assistant", gen[t].text)
                 /\ nextId' = nextId + 1
            ELSE UNCHANGED <<message_history, nextId>>
       /\ pc' = [pc EXCEPT ![t] = afterAppend(ok, "prune")]
  /\ UNCHANGED <<now, probe, cooldowns, memories, sent, received, gates, taskVars>>

\* `if (Math.random() < 0.1) await this.cleanOldHistory(userId, channelId, 20)`
Prune(t) ==
  /\ pc[t] = "prune"
  /\ \/ UNCHANGED message_history
     \/ message_history' = cleanOldHistory(message_history, msg[t].user, msg[t].channel, keepLast)
  /\ pc' = [pc EXCEPT ![t] = "done"]
  /\ UNCHANGED <<now, probe, cooldowns, memories, nextId, sent, received, gates, taskVars>>

\* catch of handleMessage: `await message.reply({ content: 'my head hurts' })`;
\* a rejection of that reply leaves handleMessage and reaches the catch of run
Catch(t) ==
  /\ pc[t] = "catch"
  /\ fallbacks' = [fallbacks EXCEPT ![t] = @ + 1]
  /\ \/ /\ sent' = Append(sent, Delivered(msg[t], "my head hurts", FALSE))
        /\ pc' = [pc EXCEPT ![t] = "done"]
     \/ /\ pc' = [pc EXCEPT ![t] = "outerCatch"]
        /\ UNCHANGED sent
  /\ Forget(t)
  /\ UNCHANGED <<now, probe, cooldowns, message_history, memories, nextId, received, gates,
                 msg, gen>>

\* catch of messageCreate.run: `await message.reply({ content: "my head hurts" })`,
\* outside any try: a rejection of that reply leaves run
OuterCatch(t) ==
  /\ pc[t] = "outerCatch"
  /\ fallbacks' = [fallbacks EXCEPT ![t] = @ + 1]
  /\ \/ /\ sent' = Append(sent, Delivered(msg[t], "my head hurts", FALSE))
        /\ pc' = [pc EXCEPT ![t] = "done"]
     \/ /\ pc' = [pc EXCEPT ![t] = "crashed"]
        /\ UNCHANGED sent
  /\ UNCHANGED <<now, probe, cooldowns, message_history, memories, nextId, received, gates,
                 msg, cycleVars, gen>>

\* the places where a task reads the clock: the gate of replyToUser, the
\* start of a setTimeout and its expiry
ReadsClock(t) ==
  \/ pc[t] \in {"replySleep", "replySave"}
  \/ AtTool(t, "reply_to_user")

\* wall-clock time passes; it is observed only where a task reads the clock
Tick ==
  /\ now < MaxTicks * TickMs
  /\ \E t \in Tasks : ReadsClock(t)
  /\ now' = now + TickMs
  /\ UNCHANGED <<probe, cooldowns, message_history, memories, nextId, sent, received, gates,
                 pc, taskVars>>

(* ---------------------------------------------------------------------- *)
(* Specifications                                                          *)
(* ---------------------------------------------------------------------- *)
\* messageCreate.run, handleMessage and generateResponse
Core(t, env) ==
  \/ Receive(t, env) \/ MarkChannelActive(t) \/ StartTyping(t) \/ SaveUserMessage(t)
  \/ BuildContext(t) \/ FirstCall(t, env) \/ FinalCall(t) \/ DispatchError(t)
  \/ SendReply(t) \/ SaveAssistant(t) \/ Prune(t) \/ Catch(t) \/ OuterCatch(t)

ReplyTool(t) ==
  replyToUser(t) \/ ReplyWake(t) \/ ReplySend(t) \/ ReplySave(t) \/ ReplyEmpty(t)

OtherTools(t) ==
  \/ getMemory(t) \/ saveMemory(t) \/ getUserInfo(t) \/ getTime(t) \/ getWeather(t)
  \/ getServerInfo(t) \/ clearHistory(t)

\* one inbound message of one user, answered with any list of catalog calls
WholeCatalog ==
  [calls |-> ToolCalls, maxCalls |-> MaxCalls, maxMsgs |-> OneMsg,
   inbound |-> {m \in Inbound : m.user = "u1"}]

Next == Core("t1", WholeCatalog) \/ ReplyTool("t1") \/ OtherTools("t1") \/ Tick

Spec == Init /\ [][Next]_vars

\* reply_to_user with lists of strings, lists of objects with and without an
\* explicit cooldown, and a leading timeout
PacedCalls ==
  { ToolCall("reply_to_user",
             [NoArgs EXCEPT !.messages = JArr(<<JStr("a"), JStr("b"), JStr("c")>>)]),
    ToolCall("reply_to_user",
             [NoArgs EXCEPT !.messages = JArr(<<JStr("a"), JStr("b")>>), !.timeout = 1000]),
    ToolCall("reply_to_user",
             [NoArgs EXCEPT !.messages = JArr(<<JObj("a", 1000), JObj("b", 0)>>)]),
    ToolCall("reply_to_user",
             [NoArgs EXCEPT !.messages = JArr(<<JObj("a", NoNumber), JObj("b", 2000)>>)]) }

\* one inbound message answered with up to MaxCalls paced replies
PacedReplies ==
  [calls |-> PacedCalls, maxCalls |-> MaxCalls, maxMsgs |-> OneMsg,
   inbound |-> {m \in Inbound : m.user = "u1" /\ m.channel = "c1"}]

NextReply ==
  \/ Receive("t1", PacedReplies) \/ MarkChannelActive("t1") \/ StartTyping("t1")
  \/ SaveUserMessage("t1") \/ BuildContext("t1") \/ FirstCall("t1", PacedReplies)
  \/ FinalCall("t1") \/ replyToUser("t1") \/ ReplyWake("t1") \/ ReplySend("t1")
  \/ ReplySave("t1") \/ SendReply("t1") \/ SaveAssistant("t1") \/ Prune("t1")
  \/ Catch("t1") \/ OuterCatch("t1") \/ Tick

SpecReply == Init /\ [][NextReply]_vars

\* the history table outlives the process: rows of earlier runs, of the pair
\* (u1, c1) and of other pairs
SeededHistories ==
  { <<>>,
    << Row(1, "u1", "c1", "user", "x"), Row(2, "u2", "c1", "user", "y"),
       Row(3, "u1", "d1", "assistant", "z"), Row(4, "u1", "c1", "assistant", "w") >> }

InitSeeded ==
  /\ now = 0
  /\ cooldowns = [u \in Users |-> NoNumber]
  /\ message_history \in SeededHistories
  /\ memories = <<>>
  /\ nextId = Len(message_history) + 1
  /\ sent = <<>>
  /\ received = 0
  /\ gates = <<>>
  /\ pc = [t \in Tasks |-> "idle"]
  /\ msg = [t \in Tasks |-> NoMessage]
  /\ messages = [t \in Tasks |-> <<>>]
  /\ first = [t \in Tasks |-> NoResponse]
  /\ final = [t \in Tasks |-> NoResponse]
  /\ i = [t \in Tasks |-> 0]
  /\ modelCalls = [t \in Tasks |-> <<>>]
  /\ gen = [t \in Tasks |-> NoGen]
  /\ normalizedMessages = [t \in Tasks |-> <<>>]
  /\ j = [t \in Tasks |-> 0]
  /\ wakeAt = [t \in Tasks |-> 0]
  /\ trace = [t \in Tasks |-> <<>>]
  /\ times = [t \in Tasks |-> <<>>]
  /\ fallbacks = [t \in Tasks |-> 0]
  /\ probe = NoProbe

\* clear_history without confirm, with confirm false and with confirm true
ClearCalls ==
  { ToolCall("clear_history", NoArgs),
    ToolCall("clear_history", [NoArgs EXCEPT !.confirm = "false"]),
    ToolCall("clear_history", [NoArgs EXCEPT !.confirm = "true"]) }

\* one inbound message of u1, in the server channel or in the direct channel
Clearing ==
  [calls |-> ClearCalls, maxCalls |-> MaxCalls, maxMsgs |-> OneMsg,
   inbound |-> {m \in Inbound : m.user = "u1"}]

NextClear ==
  \/ Receive("t1", Clearing) \/ MarkChannelActive("t1") \/ StartTyping("t1")
  \/ SaveUserMessage("t1") \/ BuildContext("t1") \/ FirstCall("t1", Clearing)
  \/ FinalCall("t1") \/ clearHistory("t1") \/ SendReply("t1") \/ SaveAssistant("t1")
  \/ Prune("t1") \/ Catch("t1") \/ OuterCatch("t1")

SpecClear == InitSeeded /\ [][NextClear]_vars

\* two messages of one user in one channel, each handled by its own task; the
\* model answers both without tool calls
PairInbound ==
  { [id |-> 0, user |-> "u1", channel |-> "c1", content |-> "hi", guild |-> TRUE],
    [id |-> 0, user |-> "u1", channel |-> "c1", content |-> "yo", guild |-> TRUE] }

SamePair == [calls |-> {}, maxCalls |-> 0, maxMsgs |-> PairMsgs, inbound |-> PairInbound]

Handle(t, env) ==
  \/ Receive(t, env) \/ MarkChannelActive(t) \/ StartTyping(t) \/ SaveUserMessage(t)
  \/ BuildContext(t) \/ FirstCall(t, env) \/ FinalCall(t) \/ SendReply(t)
  \/ SaveAssistant(t) \/ Prune(t) \/ Catch(t) \/ OuterCatch(t)

NextPair == \E t \in Tasks : Handle(t, SamePair)

SpecPair == Init /\ [][NextPair]_vars

(* ---------------------------------------------------------------------- *)
(* The history store on its own: the three methods applied to any history  *)
(* ---------------------------------------------------------------------- *)
StorePairs == {<<"u1", "c1">>, <<"u2", "c1">>, <<"u1", "d1">>}
storeVars == <<now, cooldowns, memories, sent, received, gates, pc, taskVars>>

\* saveMessageToHistory: the INSERT, or the logged and swallowed failure
AppendTurn ==
  /\ nextId <= MaxRows
  /\ \E pair \in StorePairs, role \in {"user", "assistant"}, ok \in BOOLEAN :
       /\ IF ok
            THEN /\ message_history' =
                      saveMessageToHistory(message_history, nextId, pair[1], pair[2], role, "m")
                 /\ nextId' = nextId + 1
            ELSE UNCHANGED <<message_history, nextId>>
       /\ probe' = [op |-> "append", user |-> pair[1], channel |-> pair[2], ok |-> ok]
  /\ UNCHANGED storeVars

\* getMessageHistory: the rows of the SELECT, or [] after a logged failure
FetchRecent ==
  /\ \E pair \in StorePairs, limit \in 0..MaxFetch, ok \in BOOLEAN :
       probe' = [op |-> "fetch", user |-> pair[1], channel |-> pair[2], limit |-> limit,
                 ok |-> ok,
                 rows |-> IF ok
                            THEN getMessageHistory(message_history, pair[1], pair[2], limit)
                            ELSE <<>>]
  /\ UNCHANGED <<message_history, nextId, storeVars>>

\* cleanOldHistory: the DELETE, or the logged and swallowed failure
PruneHistory ==
  /\ \E pair \in StorePairs, keep \in 0..MaxFetch, ok \in BOOLEAN :
       /\ message_history' =
            IF ok THEN cleanOldHistory(message_history, pair[1], pair[2], keep)
            ELSE message_history
       /\ probe' = [op |-> "prune", user |-> pair[1], channel |-> pair[2], keep |-> keep,
                    ok |-> ok, before |-> message_history]
  /\ UNCHANGED <<nextId, storeVars>>

NextStore == AppendTurn \/ FetchRecent \/ PruneHistory

SpecStore == Init /\ [][NextStore]_vars


(* ---------------------------------------------------------------------- *)
(* Vocabulary of the properties                                            *)
(* ---------------------------------------------------------------------- *)
Calls(t) == first[t].tool_calls.list
Indices(n) == [k \in 1..n |-> k]
Count(seq, x) == Len(SelectSeq(seq, LAMBDA e : e = x))
Has(t, e) == \E p \in 1..Len(trace[t]) : trace[t][p] = e
EventsOf(t, k) == SelectSeq(trace[t], LAMBDA e : e.call = k)
Succeeded(t, k) == Has(t, Ev(k, "end"))
Failed(t, k) == Has(t, Ev(k, "fail"))
Completed(t, k) == Succeeded(t, k) \/ Failed(t, k)

\* generateResponse has just returned / thrown: its locals are still in place
JustReturned(t) == pc[t] = "reply"
JustThrew(t) == pc[t] = "catch" /\ gen[t].status = "threw" /\ modelCalls[t] # <<>>
JustEnded(t) == JustReturned(t) \/ JustThrew(t)
\* the cycle went through the tool branch and reached the finalization call
Finalized(t) == JustEnded(t) /\ first[t].tool_calls.present /\ Len(modelCalls[t]) = 2

Last(seq) == seq[Len(seq)]
IsFailureTurn(e) == e.role = "system" /\ "failed" \in DOMAIN e.content
IsResultTurn(e) == e.role = "system" /\ "result" \in DOMAIN e.content

(* ---------------------------------------------------------------------- *)
(* C1                                                                      *)
(* ---------------------------------------------------------------------- *)
\* C1: when the first response carries no tool calls (absent or an empty
\* list), generateResponse returns that response's content and exactly one
\* model call is made in the cycle.
C1_NoToolCallsOneModelCall ==
  \A t \in Tasks :
    (JustEnded(t) /\ Len(modelCalls[t]) >= 1 /\ modelCalls[t][1].ok
       /\ gen[t].status # "threw" /\ Calls(t) = <<>>)
      => /\ Len(modelCalls[t]) = 1
         /\ gen[t] = Returned(OrEmpty(first[t].content))

(* ---------------------------------------------------------------------- *)
(* C2                                                                      *)
(* ---------------------------------------------------------------------- *)
AfterGenerate == {"reply", "saveAssistant", "prune", "done", "catch", "outerCatch", "crashed"}

\* C2: when the first response carries one or more tool calls, exactly two
\* model calls are made: the first with the tool definitions, the second
\* without; the second one's content is what generateResponse returns; the
\* tool calls of the second response are never dispatched (as many dispatches
\* as the first response lists, and no tool position once it has returned).
C2_TwoModelCalls ==
  \A t \in Tasks :
    /\ (JustEnded(t) /\ Len(Calls(t)) >= 1)
         => /\ Len(modelCalls[t]) = 2
            /\ modelCalls[t][1].tools
            /\ ~modelCalls[t][2].tools
            /\ Len(SelectSeq(trace[t], LAMBDA e : e.ev = "start")) = Len(Calls(t))
            /\ Last(trace[t]) = Ev(0, "model")
    /\ (JustReturned(t) /\ Len(Calls(t)) >= 1)
         => gen[t] = Returned(OrEmpty(final[t].content))
    /\ gen[t].status = "returned" => pc[t] \in AfterGenerate

C2_Witness ==
  \E t \in Tasks :
    /\ JustReturned(t)
    /\ Len(Calls(t)) >= 1
    /\ final[t].tool_calls.list # <<>>
    /\ final[t].content = "r"

(* ---------------------------------------------------------------------- *)
(* C3                                                                      *)
(* ---------------------------------------------------------------------- *)
FailedCalls(t) == SelectSeq(Indices(Len(Calls(t))), LAMBDA k : Failed(t, k))
FailureTurns(conv) == SelectSeq(conv, IsFailureTurn)

\* C3: whatever calls of the list fail (a parse failure included), every call
\* is dispatched exactly once and completes, one finalization call follows,
\* and its input holds one failure turn per failed call, in call order.
C3_FailuresIsolated ==
  \A t \in Tasks :
    /\ (JustEnded(t) /\ first[t].tool_calls.present) => Len(modelCalls[t]) = 2
    /\ Finalized(t)
         => /\ \A k \in 1..Len(Calls(t)) :
                 Count(trace[t], Ev(k, "start")) = 1 /\ Completed(t, k)
            /\ Len(SelectSeq(modelCalls[t], LAMBDA c : ~c.tools)) = 1
            /\ LET turns == FailureTurns(modelCalls[t][2].messages)
                   failed == FailedCalls(t)
               IN /\ Len(turns) = Len(failed)
                  /\ \A p \in 1..Len(failed) :
                       turns[p].content.tool = Calls(t)[failed[p]].name

C3_Witness ==
  \E t \in Tasks :
    /\ JustReturned(t)
    /\ Len(Calls(t)) = 2
    /\ ~Calls(t)[1].arguments.valid
    /\ Failed(t, 1)
    /\ Succeeded(t, 2)

(* ---------------------------------------------------------------------- *)
(* C4                                                                      *)
(* ---------------------------------------------------------------------- *)
Shape(e) ==
  IF "text" \in DOMAIN e.content THEN <<e.role, "text", e.content.text>>
  ELSE IF "result" \in DOMAIN e.content THEN <<e.role, "executed", e.content.tool>>
  ELSE <<e.role, "failed", e.content.tool>>
Shapes(conv) == [p \in 1..Len(conv) |-> Shape(conv[p])]

RECURSIVE ExpectedTurns(_, _)
ExpectedTurns(t, k) ==
  IF k = 0 THEN <<>>
  ELSE ExpectedTurns(t, k - 1) \o
       (IF Succeeded(t, k)
          THEN << <<"assistant", "text", OrEmpty(first[t].content)>>,
                  <<"system", "executed", Calls(t)[k].name>> >>
          ELSE << <<"system", "failed", Calls(t)[k].name>> >>)

Successes(t) == Cardinality({k \in 1..Len(Calls(t)) : Succeeded(t, k)})
Failures(t) == Cardinality({k \in 1..Len(Calls(t)) : Failed(t, k)})

\* C4: the conversation of the finalization call is the conversation of the
\* first call extended by 2k+f entries in call order: per success an assistant
\* entry with the first response's content and a system "executed" entry, per
\* failure one system "failed" entry.
C4_FinalConversation ==
  \A t \in Tasks :
    Finalized(t)
      => LET orig == modelCalls[t][1].messages
             input == modelCalls[t][2].messages
         IN /\ Len(input) = Len(orig) + 2 * Successes(t) + Failures(t)
            /\ SubSeq(input, 1, Len(orig)) = orig
            /\ Shapes(SubSeq(input, Len(orig) + 1, Len(input)))
                 = ExpectedTurns(t, Len(Calls(t)))

C4_Witness ==
  \E t \in Tasks :
    /\ Finalized(t)
    /\ first[t].content = Null
    /\ Successes(t) = 1
    /\ Failures(t) = 1

(* ---------------------------------------------------------------------- *)
(* C5                                                                      *)
(* ---------------------------------------------------------------------- *)
IsEnd(e, k) == e = Ev(k, "end") \/ e = Ev(k, "fail")

\* C5: within a task the effects of the tool calls never interleave: a call
\* starts only after its predecessor has completed or failed, nothing of a
\* call happens after its completion, and the finalization model call comes
\* after the completion of the last call.
C5_Sequential ==
  \A t \in Tasks :
    LET tr == trace[t] IN
    \A q \in 1..Len(tr) :
      /\ (tr[q].ev = "start" /\ tr[q].call > 1)
           => \E p \in 1..(q - 1) : IsEnd(tr[p], tr[q].call - 1)
      /\ tr[q].call >= 1
           => /\ \A p \in 1..(q - 1) : tr[p].call <= tr[q].call
              /\ \A p \in 1..(q - 1) : ~IsEnd(tr[p], tr[q].call)
      /\ (tr[q] = Ev(0, "model") /\ q > 1)
           => /\ q = Len(tr)
              /\ \A k \in 1..Len(Calls(t)) : \E p \in 1..(q - 1) : IsEnd(tr[p], k)

C5_Witness ==
  \E t \in Tasks :
    /\ JustReturned(t)
    /\ Len(Calls(t)) = 2
    /\ Count(trace[t], Ev(1, "send")) = 2
    /\ Count(trace[t], Ev(1, "insert")) = 2
    /\ Count(trace[t], Ev(2, "send")) = 1

(* ---------------------------------------------------------------------- *)
(* C6                                                                      *)
(* ---------------------------------------------------------------------- *)
\* C6: a failed model call (the first or the finalization) is the last model
\* call of the cycle, and generateResponse ends by throwing that error: it
\* returns no text.
C6_ModelFailurePropagates ==
  \A t \in Tasks :
    /\ \A k \in 1..Len(modelCalls[t]) :
         ~modelCalls[t][k].ok
           => /\ k = Len(modelCalls[t])
              /\ gen[t] = Threw(Err("UpstreamFailure"))
              /\ pc[t] = "catch"
    /\ gen[t].status = "threw" => pc[t] \in {"catch", "outerCatch", "done", "crashed"}

C6_Witness ==
  \E t \in Tasks :
    /\ Len(modelCalls[t]) = 2
    /\ ~modelCalls[t][2].ok
    /\ JustThrew(t)


(* ---------------------------------------------------------------------- *)
(* C7                                                                      *)
(* ---------------------------------------------------------------------- *)
\* the step of task t that dispatches a call whose name is outside the catalog
DispatchesUnknown(t) ==
  /\ pc[t] = "loop"
  /\ i[t] <= Len(Calls(t))
  /\ Calls(t)[i[t]].name \notin CatalogNames
  /\ i'[t] # i[t]

FailsWith(t, kind) ==
  messages'[t] = Append(messages[t],
                        Entry("system", FailedText(Calls(t)[i[t]].name, Err(kind))))

NoSideEffect ==
  /\ message_history' = message_history
  /\ memories' = memories
  /\ cooldowns' = cooldowns
  /\ sent' = sent

\* C7 as stated: dispatching a name outside the catalog fails with UnknownTool
\* for every argument payload, and changes no store, cooldown or sent message.
C7_UnknownToolAnyPayload ==
  [][\A t \in Tasks : DispatchesUnknown(t) => (FailsWith(t, "UnknownTool") /\ NoSideEffect)]_vars

\* C7 (amended): dispatching a name outside the catalog changes no store,
\* cooldown or sent message; it fails with UnknownTool when the arguments parse
\* as JSON, and with the parse error when they do not.
C7_UnknownToolParsedPayload ==
  [][\A t \in Tasks :
       DispatchesUnknown(t)
         => /\ NoSideEffect
            /\ IF Calls(t)[i[t]].arguments.valid
                 THEN FailsWith(t, "UnknownTool")
                 ELSE FailsWith(t, "SyntaxError")]_vars

C7_Witness ==
  \E t \in Tasks :
    /\ pc[t] = "loop"
    /\ i[t] = 2
    /\ Calls(t)[1].name \notin CatalogNames
    /\ Calls(t)[1].arguments.valid
    /\ Last(messages[t]) = Entry("system", FailedText(Calls(t)[1].name, Err("UnknownTool")))
    /\ message_history # <<>>

(* ---------------------------------------------------------------------- *)
(* C8                                                                      *)
(* ---------------------------------------------------------------------- *)
\* a required field of the tool's schema is missing from parsed arguments
MissingRequired(call) ==
  LET a == call.arguments IN
  /\ a.valid
  /\ CASE call.name = "reply_to_user" ->
            \/ a.messages.kind = "undefined"
            \/ /\ a.messages.kind = "array"
               /\ \E k \in 1..Len(a.messages.items) :
                    /\ a.messages.items[k].kind = "object"
                    /\ a.messages.items[k].content = Undefined
       [] call.name = "get_memory" -> a.keywords = Undefined
       [] call.name = "save_memory" -> a.keywords = Undefined \/ a.content = Undefined
       [] call.name = "get_time" -> a.timezone = Undefined
       [] call.name = "get_weather" -> a.city = Undefined
       [] call.name = "clear_history" -> a.confirm = Undefined
       [] OTHER -> FALSE

\* C8: a catalog call that omits a required field fails with ValidationError
\* before any message is sent, any row written or deleted, the cooldown map
\* updated or any external service called.
C8_ValidatedBeforeEffects ==
  \A t \in Tasks :
    \A k \in 1..Len(Calls(t)) :
      MissingRequired(Calls(t)[k])
        => /\ \A p \in 1..Len(EventsOf(t, k)) :
                EventsOf(t, k)[p].ev \in {"start", "fail"}
           /\ (pc[t] = "loop" /\ i[t] = k + 1)
                => Last(messages[t]) =
                     Entry("system", FailedText(Calls(t)[k].name, Err("ValidationError")))

(* ---------------------------------------------------------------------- *)
(* C9                                                                      *)
(* ---------------------------------------------------------------------- *)
\* C9: once a multi-entry reply_to_user of a user has passed the gate at time
\* t, every later gate check of that user less than 2000 ms after t is
\* rejected, and a rejected call sends nothing and persists nothing.
C9_GateRejectsWithinCooldown ==
  /\ \A a \in 1..Len(gates) : \A b \in (a + 1)..Len(gates) :
       (/\ gates[a].user = gates[b].user
        /\ gates[a].ok
        /\ gates[b].at - gates[a].at < 2000)
         => ~gates[b].ok
  /\ \A b \in 1..Len(gates) :
       (/\ ~gates[b].ok
        /\ msg[gates[b].task].id = gates[b].message
        /\ Has(gates[b].task, Ev(gates[b].call, "start")))
         => /\ EventsOf(gates[b].task, gates[b].call)
                 = <<Ev(gates[b].call, "start"), Ev(gates[b].call, "fail")>>
            /\ \E e \in {FailureTurns(messages[gates[b].task])[p] :
                           p \in 1..Len(FailureTurns(messages[gates[b].task]))} :
                 e.content.failed.kind = "RateLimited"

C9_Witness ==
  \E a \in 1..Len(gates) : \E b \in (a + 1)..Len(gates) :
    /\ gates[a].user = gates[b].user
    /\ gates[a].ok
    /\ ~gates[b].ok
    /\ gates[b].at - gates[a].at = 1000

(* ---------------------------------------------------------------------- *)
(* C10                                                                     *)
(* ---------------------------------------------------------------------- *)
IsBareString(call) ==
  /\ call.name = "reply_to_user"
  /\ call.arguments.valid
  /\ call.arguments.messages.kind = "string"

RECURSIVE LastPass(_, _)
\* time of the last accepted gate check of a user among the first n decisions
LastPass(u, n) ==
  IF n = 0 THEN NoNumber
  ELSE IF gates[n].user = u /\ gates[n].ok THEN gates[n].at
  ELSE LastPass(u, n - 1)

\* C10: a reply_to_user whose messages argument is a bare string is normalized
\* to one entry with delay 0, never goes through the cooldown gate (it is
\* never rejected as RateLimited and never writes the cooldown entry, which
\* only accepted gate checks write), is not delayed, and sends exactly one
\* message when it succeeds.
C10_BareStringUngated ==
  /\ \A u \in Users : cooldowns[u] = LastPass(u, Len(gates))
  /\ \A t \in Tasks : \A k \in 1..Len(Calls(t)) :
       IsBareString(Calls(t)[k])
         => /\ \A g \in 1..Len(gates) :
                 ~(gates[g].message = msg[t].id /\ gates[g].call = k)
            /\ ~Has(t, Ev(k, "cooldown"))
            /\ (i[t] = k /\ pc[t] \in {"replySend", "replySave", "replySleep", "replyDone"})
                 => /\ normalizedMessages[t] =
                         <<[content |-> Calls(t)[k].arguments.messages.value, cooldown |-> 0]>>
                    /\ leadingTimeout(Calls(t)[k].arguments) = 0 => pc[t] # "replySleep"
            /\ Count(trace[t], Ev(k, "send")) + Count(trace[t], Ev(k, "sendfail")) <= 1
            /\ Succeeded(t, k) => Count(trace[t], Ev(k, "send")) = 1
            /\ Failed(t, k) => Has(t, Ev(k, "sendfail"))

C10_Witness ==
  \E t \in Tasks : \E k \in 1..Len(Calls(t)) :
    /\ IsBareString(Calls(t)[k])
    /\ Succeeded(t, k)
    /\ cooldowns[msg[t].user] # NoNumber
    /\ now - cooldowns[msg[t].user] < globalCooldown

(* ---------------------------------------------------------------------- *)
(* C11                                                                     *)
(* ---------------------------------------------------------------------- *)
IsReplyList(call) ==
  /\ call.name = "reply_to_user"
  /\ call.arguments.valid
  /\ call.arguments.messages.kind = "array"

IsStringList(call) ==
  /\ IsReplyList(call)
  /\ \A e \in 1..Len(call.arguments.messages.items) :
       call.arguments.messages.items[e].kind = "string"

Items(call) == call.arguments.messages.items
ListContents(call) ==
  [e \in 1..Len(Items(call)) |->
     IF Items(call)[e].kind = "string" THEN Items(call)[e].value ELSE Items(call)[e].content]

\* the call was not turned away by the gate and went on to its sends
PassedGate(t, k) ==
  /\ Has(t, Ev(k, "start"))
  /\ Len(Items(Calls(t)[k])) > 1 => Has(t, Ev(k, "cooldown"))

\* replyToUser is at work on call k
Replying(t, k) ==
  i[t] = k /\ pc[t] \in {"replySleep", "replySend", "replySave", "replyDone"}

Delays(norm) == [e \in 1..Len(norm) |-> norm[e].cooldown]
ExpectedDefaultDelays(n) == [e \in 1..n |-> IF e = 1 THEN 0 ELSE 1000]

\* number of effects `what` of the calls before call k
Before(t, k, what) == Len(SelectSeq(trace[t], LAMBDA e : e.ev = what /\ e.call < k))

Segment(seq, from, n) == [e \in 1..n |-> seq[from + e]]

\* what has been sent in reply to the message of task t, in order
SentContents(t) ==
  LET mine == SelectSeq(sent, LAMBDA d : d.to = msg[t].id)
  IN [p \in 1..Len(mine) |-> mine[p].content]

ReturnedCount(t, k, n, delays) ==
  \E p \in 1..Len(messages[t]) :
    messages[t][p] =
      Entry("system",
            ExecutedText("reply_to_user",
                         [success |-> TRUE, messages_sent |-> n,
                          results |-> [e \in 1..n |-> [message |-> e, cooldown |-> delays[e]]]]))

SendsAndReturns(t, k) ==
  LET c == ListContents(Calls(t)[k])
      n == Len(c)
  IN /\ Count(trace[t], Ev(k, "send")) = n
     /\ Count(trace[t], Ev(k, "query")) = n
     /\ Len(SentContents(t)) >= Before(t, k, "send") + n
     /\ Segment(SentContents(t), Before(t, k, "send"), n) = c
     /\ ReturnedCount(t, k, n, ExpectedDefaultDelays(n))

\* a list of strings is past the gate: its delays are the defaults, and once
\* it has returned it has sent every entry in order and reports the count
StringListSent ==
  \A t \in Tasks : \A k \in 1..Len(Calls(t)) :
    (IsStringList(Calls(t)[k]) /\ PassedGate(t, k))
      => /\ Replying(t, k)
              => Delays(normalizedMessages[t]) =
                   ExpectedDefaultDelays(Len(Items(Calls(t)[k])))
         /\ Succeeded(t, k) => SendsAndReturns(t, k)

\* the step that ends the history write of the entry just sent by task t
EndsWrite(t) ==
  /\ pc[t] = "replySave"
  /\ pc'[t] # pc[t]
  /\ IsStringList(Calls(t)[i[t]])

\* the assistant turn of the entry just sent is appended to the history
TurnWritten(t) ==
  message_history' =
    Append(message_history,
           Row(nextId, msg[t].user, msg[t].channel, "assistant",
               ListContents(Calls(t)[i[t]])[j[t]]))

\* C11 (as stated): a list of n strings that passes the gate is normalised to
\* the delays [0, 1000, ..., 1000]; it sends the n messages in order, each send
\* is followed by the append of its assistant turn for the pair, so that n
\* turns are persisted in list order, and the result carries the count n and
\* one status per entry.
C11_StringListPersistsAll ==
  [][StringListSent' /\ \A t \in Tasks : EndsWrite(t) => TurnWritten(t)]_vars

\* C11 (amended): as above, except that the history write that follows a send
\* either appends the assistant turn of that entry or fails and leaves the
\* history as it is: the call goes on and still returns the count n.
C11_StringListBestEffort ==
  [][StringListSent'
       /\ \A t \in Tasks :
            EndsWrite(t) => (TurnWritten(t) \/ message_history' = message_history)]_vars

\* a list of three strings returned after one of its history writes failed
C11_Witness ==
  \E t \in Tasks : \E k \in 1..Len(Calls(t)) :
    /\ IsStringList(Calls(t)[k])
    /\ Len(Items(Calls(t)[k])) = 3
    /\ Succeeded(t, k)
    /\ Count(trace[t], Ev(k, "insert")) = 2
    /\ Len(sent) = 3

(* ---------------------------------------------------------------------- *)
(* C12                                                                     *)
(* ---------------------------------------------------------------------- *)
IsObjectList(call) ==
  /\ IsReplyList(call)
  /\ \A e \in 1..Len(Items(call)) : Items(call)[e].kind = "object"

\* C12: in a list of objects every entry with an explicit delay (0 included)
\* is normalised to exactly that delay, and an entry without one takes the
\* default: 0 for the first entry, 1000 ms for the later ones.
C12_ExplicitDelayKept ==
  \A t \in Tasks : \A k \in 1..Len(Calls(t)) :
    (IsObjectList(Calls(t)[k]) /\ Replying(t, k))
      => /\ Len(normalizedMessages[t]) = Len(Items(Calls(t)[k]))
         /\ \A e \in 1..Len(Items(Calls(t)[k])) :
              LET given == Items(Calls(t)[k])[e].cooldown
              IN normalizedMessages[t][e].cooldown =
                   IF given # NoNumber THEN given ELSE ExpectedDefaultDelays(e)[e]

(* ---------------------------------------------------------------------- *)
(* C13                                                                     *)
(* ---------------------------------------------------------------------- *)
\* positions in the trace of task t of the effects `what` of call k
Positions(t, k, what) ==
  SelectSeq(Indices(Len(trace[t])), LAMBDA p : trace[t][p] = Ev(k, what))

\* the sends of call k and the history accesses that follow them, in order
Pacing(t, k) == SelectSeq(EventsOf(t, k), LAMBDA e : e.ev \in {"send", "query"})

DispatchesClear(t) ==
  /\ pc[t] = "loop"
  /\ i[t] >= 1 /\ i[t] <= Len(Calls(t))
  /\ Calls(t)[i[t]].name = "clear_history"
  /\ Calls(t)[i[t]].arguments.valid
  /\ i'[t] # i[t]

RowsOf(hist, user, channel) ==
  SelectSeq(hist, LAMBDA r : r.user_id = user /\ r.channel_id = channel)
RowsOfOthers(hist, user, channel) ==
  SelectSeq(hist, LAMBDA r : ~(r.user_id = user /\ r.channel_id = channel))

ReturnsDeleted(t, n) ==
  Last(messages'[t]).content =
    ExecutedText("clear_history", [success |-> TRUE, messages_deleted |-> n])

\* C14: clear_history without confirm = true fails with ConfirmationRequired
\* and leaves the history as it is; with confirm = true a call that returns
\* has deleted every row of the task's (user, channel) pair and no other row,
\* and returns the number of rows deleted; a call that fails deletes nothing.
C14_ClearNeedsConfirm ==
  [][\A t \in Tasks :
       DispatchesClear(t)
         => LET user == msg[t].user
                channel == msg[t].channel
            IN IF Calls(t)[i[t]].arguments.confirm # "true"
                 THEN /\ FailsWith(t, "ConfirmationRequired")
                      /\ message_history' = message_history
                 ELSE \/ /\ ReturnsDeleted(t, Len(RowsOf(message_history, user, channel)))
                         /\ RowsOf(message_history', user, channel) = <<>>
                         /\ RowsOfOthers(message_history', user, channel) =
                              RowsOfOthers(message_history, user, channel)
                      \/ /\ FailsWith(t, "UpstreamFailure")
                         /\ message_history' = message_history]_vars

\* a confirmed clear has returned: the pair's rows are gone, the rows of the
\* other pairs are still there
C14_Witness ==
  \E t \in Tasks :
    /\ Len(Calls(t)) >= 1
    /\ Calls(t)[1].arguments.confirm = "true"
    /\ Succeeded(t, 1)
    /\ Count(trace[t], Ev(1, "delete")) >= 2
    /\ RowsOf(message_history, msg[t].user, msg[t].channel) = <<>>
    /\ Len(message_history) >= 2

(* ---------------------------------------------------------------------- *)
(* C15                                                                     *)
(* ---------------------------------------------------------------------- *)
Smaller(a, b) == IF a < b THEN a ELSE b
\* the m most recently appended rows of a pair, oldest first
MostRecent(own, m) == [e \in 1..m |-> own[Len(own) - m + e]]

RecentOfPair ==
  LET own == RowsOf(message_history, probe.user, probe.channel)
  IN probe.rows = MostRecent(own, Smaller(Len(own), probe.limit))

\* C15 (as stated): a fetch of (user, channel, limit) returns exactly the
\* min(n, limit) most recently appended turns of the pair, oldest first, and
\* no turn of another pair.
C15_FetchRecentAlways ==
  probe.op = "fetch" => RecentOfPair

\* C15 (amended): a fetch whose query succeeds returns exactly the
\* min(n, limit) most recently appended turns of the pair, oldest first, and
\* no turn of another pair; a fetch whose query fails returns no turn at all.
C15_FetchRecentUnlessFailed ==
  probe.op = "fetch" => IF probe.ok THEN RecentOfPair ELSE probe.rows = <<>>

\* a fetch cut by its limit, from a history that also holds another pair's row
C15_Witness ==
  /\ probe.op = "fetch"
  /\ probe.ok
  /\ probe.limit = 2
  /\ Len(RowsOf(message_history, probe.user, probe.channel)) = 3
  /\ Len(message_history) = 4
  /\ message_history[3].user_id # probe.user
  /\ probe.rows = <<message_history[2], message_history[4]>>

(* ---------------------------------------------------------------------- *)
(* C16                                                                     *)
(* ---------------------------------------------------------------------- *)
PrunedToRecent ==
  LET was == RowsOf(probe.before, probe.user, probe.channel)
      left == RowsOf(message_history, probe.user, probe.channel)
  IN /\ Len(left) <= probe.keep
     /\ left = MostRecent(was, Smaller(Len(was), probe.keep))
     /\ RowsOfOthers(message_history, probe.user, probe.channel) =
          RowsOfOthers(probe.before, probe.user, probe.channel)

\* C16 (as stated): right after a prune of (user, channel, keepLast) at most
\* keepLast rows of the pair remain, they are the most recent ones, and the
\* rows of every other pair are as before.
C16_PruneAlwaysBounds ==
  probe.op = "prune" => PrunedToRecent

\* C16 (amended): right after a prune whose DELETE succeeded at most keepLast
\* rows of the pair remain, they are the most recent ones, and the rows of
\* every other pair are as before; a prune whose DELETE failed returns
\* normally and leaves every row in place.
C16_PruneBoundsUnlessFailed ==
  probe.op = "prune" => IF probe.ok THEN PrunedToRecent ELSE message_history = probe.before

\* a prune that deleted rows of its pair next to rows of another pair
C16_Witness ==
  /\ probe.op = "prune"
  /\ probe.ok
  /\ probe.keep = 1
  /\ Len(RowsOf(probe.before, probe.user, probe.channel)) = 3
  /\ Len(probe.before) = 4
  /\ Len(message_history) = 2

(* ---------------------------------------------------------------------- *)
(* C17                                                                     *)
(* ---------------------------------------------------------------------- *)
\* the inbound turn of task t as an entry of the conversation
InboundEntry(t) == Entry("user", Text(msg[t].content))

\* no other turn of the pair carries the text of the inbound message of t
OnlyTurnWithItsText(t) ==
  Len(SelectSeq(message_history,
                LAMBDA r : OfPair(r, msg[t].user, msg[t].channel)
                           /\ r.content = msg[t].content)) <= 1

\* C17: the conversation handed to the first model call starts with the
\* system prompt, holds at most 8 history turns, and ends with the new inbound
\* turn as a user entry; that turn is in the conversation exactly once,
\* whatever other tasks of the pair do and whether or not its history write
\* succeeded.
C17_InboundExactlyOnce ==
  \A t \in Tasks :
    pc[t] = "call1"
      => LET conv == messages[t] IN
         /\ conv[1] = SystemPrompt
         /\ Len(conv) <= historyLimit + 2
         /\ Last(conv) = InboundEntry(t)
         /\ OnlyTurnWithItsText(t) => Count(conv, InboundEntry(t)) = 1

(* ---------------------------------------------------------------------- *)
(* C18                                                                     *)
(* ---------------------------------------------------------------------- *)
\* the step in which a history append of task t ends without a row written
AppendFails(t) ==
  /\ pc[t] \in {"saveUser", "saveAssistant", "replySave"}
  /\ pc'[t] # pc[t]
  /\ message_history' = message_history

\* C18: a failed history append never reaches the caller. After the inbound
\* turn the task goes on to build the conversation for the model call; after
\* the final assistant turn it goes on to its normal end; inside reply_to_user
\* the send stays counted, the next entry is still due, and after the last
\* entry the call returns its count of messages sent.
C18_AppendFailureSwallowed ==
  [][\A t \in Tasks :
       AppendFails(t)
         => /\ sent' = sent
            /\ pc[t] = "saveUser" => pc'[t] = "fetch"
            /\ pc[t] = "saveAssistant" => pc'[t] = "prune"
            /\ pc[t] = "replySave"
                 => LET norm == normalizedMessages[t] IN
                    /\ Count(trace'[t], Ev(i[t], "send")) = j[t]
                    /\ IF j[t] < Len(norm)
                         THEN /\ pc'[t] \in {"replySleep", "replySend"}
                              /\ j'[t] = j[t] + 1
                              /\ i'[t] = i[t]
                         ELSE /\ pc'[t] = "loop"
                              /\ i'[t] = i[t] + 1
                              /\ Last(messages'[t]).content =
                                   ExecutedText("reply_to_user", replyResult(norm))]_vars

\* a two-part reply has returned although no history write of the task
\* succeeded: neither the inbound turn nor the two assistant turns are stored
C18_Witness ==
  \E t \in Tasks : \E k \in 1..Len(Calls(t)) :
    /\ IsReplyList(Calls(t)[k])
    /\ Succeeded(t, k)
    /\ Count(trace[t], Ev(k, "send")) = 2
    /\ Count(trace[t], Ev(k, "query")) = 2
    /\ Count(trace[t], Ev(k, "insert")) = 0
    /\ message_history = <<>>
    /\ Len(sent) = 2

(* ---------------------------------------------------------------------- *)
(* C19                                                                     *)
(* ---------------------------------------------------------------------- *)
\* C19: when the handling of a message fails, one fallback reply is attempted
\* for it and no more, and no failure leaves the messageCreate handler, also
\* when the fallback reply itself is rejected.
C19_OneFallbackNoEscape ==
  \A t \in Tasks :
    /\ fallbacks[t] <= 1
    /\ pc[t] \in {"catch", "outerCatch"} => fallbacks[t] = 0
    /\ pc[t] # "crashed"

(* ---------------------------------------------------------------------- *)
(* C20                                                                     *)
(* ---------------------------------------------------------------------- *)
\* the step of task t that dispatches a get_server_info call
DispatchesServerInfo(t) ==
  /\ pc[t] = "loop"
  /\ i[t] >= 1 /\ i[t] <= Len(Calls(t))
  /\ Calls(t)[i[t]].name = "get_server_info"
  /\ Calls(t)[i[t]].arguments.valid
  /\ i'[t] # i[t]

\* C20: get_server_info for a message outside a server fails with NotInServer
\* and returns no server data; for a message in a server it returns the
\* metadata of that server; in both cases it writes nothing.
C20_ServerInfoOnlyInServer ==
  [][\A t \in Tasks :
       DispatchesServerInfo(t)
         => /\ NoSideEffect
            /\ IF msg[t].guild
                 THEN Last(messages'[t]).content =
                        ExecutedText("get_server_info", [id |-> guildOf(msg[t]).id])
                 ELSE FailsWith(t, "NotInServer")]_vars

(* ---------------------------------------------------------------------- *)
(* Memory tools over a seeded memory store                                 *)
(* ---------------------------------------------------------------------- *)
Memory(id, user, keywords, content) ==
  [id |-> id, user_id |-> user, keywords |-> keywords, content |-> content]

\* an empty table, one note per user, and six notes of u1 around one of u2
SeededMemories ==
  { <<>>,
    << Memory(1, "u1", "k", "a"), Memory(2, "u2", "k", "b") >>,
    << Memory(1, "u1", "k", "a"), Memory(2, "u1", "k", "c"), Memory(3, "u2", "k", "b"),
       Memory(4, "u1", "k", "d"), Memory(5, "u1", "k", "e"), Memory(6, "u1", "k", "f"),
       Memory(7, "u1", "k", "g") >> }

InitMemories ==
  /\ now = 0
  /\ cooldowns = [u \in Users |-> NoNumber]
  /\ message_history = <<>>
  /\ memories \in SeededMemories
  /\ nextId = 1
  /\ sent = <<>>
  /\ received = 0
  /\ gates = <<>>
  /\ pc = [t \in Tasks |-> "idle"]
  /\ msg = [t \in Tasks |-> NoMessage]
  /\ messages = [t \in Tasks |-> <<>>]
  /\ first = [t \in Tasks |-> NoResponse]
  /\ final = [t \in Tasks |-> NoResponse]
  /\ i = [t \in Tasks |-> 0]
  /\ modelCalls = [t \in Tasks |-> <<>>]
  /\ gen = [t \in Tasks |-> NoGen]
  /\ normalizedMessages = [t \in Tasks |-> <<>>]
  /\ j = [t \in Tasks |-> 0]
  /\ wakeAt = [t \in Tasks |-> 0]
  /\ trace = [t \in Tasks |-> <<>>]
  /\ times = [t \in Tasks |-> <<>>]
  /\ fallbacks = [t \in Tasks |-> 0]
  /\ probe = NoProbe

\* get_memory and save_memory without and with the optional user_id argument
MemoryCalls ==
  { ToolCall("get_memory", [NoArgs EXCEPT !.keywords = "k"]),
    ToolCall("get_memory", [NoArgs EXCEPT !.keywords = "none"]),
    ToolCall("get_memory", [NoArgs EXCEPT !.keywords = "k", !.user_id = "u2"]),
    ToolCall("save_memory", [NoArgs EXCEPT !.keywords = "k", !.content = "m"]),
    ToolCall("save_memory", [NoArgs EXCEPT !.keywords = "k", !.content = "m", !.user_id = "u2"]) }

\* one inbound message of u1
Remembering ==
  [calls |-> MemoryCalls, maxCalls |-> MaxCalls, maxMsgs |-> OneMsg,
   inbound |-> {m \in Inbound : m.user = "u1"}]

NextMemory ==
  \/ Receive("t1", Remembering) \/ MarkChannelActive("t1") \/ StartTyping("t1")
  \/ SaveUserMessage("t1") \/ BuildContext("t1") \/ FirstCall("t1", Remembering)
  \/ FinalCall("t1") \/ getMemory("t1") \/ saveMemory("t1") \/ SendReply("t1")
  \/ SaveAssistant("t1") \/ Prune("t1") \/ Catch("t1") \/ OuterCatch("t1")

SpecMemory == InitMemories /\ [][NextMemory]_vars

(* ---------------------------------------------------------------------- *)
(* C21                                                                     *)
(* ---------------------------------------------------------------------- *)
\* the step of task t that dispatches a get_memory or save_memory call
DispatchesMemory(t, name) ==
  /\ pc[t] = "loop"
  /\ i[t] >= 1 /\ i[t] <= Len(Calls(t))
  /\ Calls(t)[i[t]].name = name
  /\ Calls(t)[i[t]].arguments.valid
  /\ i'[t] # i[t]

\* the notes of one user that match the keywords, best first, at most five
OwnMatches(user, keywords) ==
  FirstN(SelectSeq(memories, LAMBDA r : r.user_id = user /\ r.keywords = keywords),
         memoryLimit)

\* C21: a get_memory executed in the task of user A returns, whatever the
\* arguments, only rows of A: the (at most five) matching rows of A, so the
\* result does not depend on the rows of other users, an empty result being
\* returned as a result and not as a failure; a save_memory executed in the
\* task of A adds only a row whose user_id is A; neither changes another row.
C21_MemoryScopedPerUser ==
  [][\A t \in Tasks :
       /\ DispatchesMemory(t, "get_memory") /\ IsResultTurn(Last(messages'[t]))
            => /\ Last(messages'[t]).content.result.memories
                    = OwnMatches(msg[t].user, Calls(t)[i[t]].arguments.keywords)
               /\ Len(Last(messages'[t]).content.result.memories) <= memoryLimit
               /\ memories' = memories
       /\ DispatchesMemory(t, "save_memory")
            => /\ Len(memories') >= Len(memories)
               /\ SubSeq(memories', 1, Len(memories)) = memories
               /\ \A p \in Len(memories) + 1 .. Len(memories') :
                    memories'[p].user_id = msg[t].user]_vars

(* ---------------------------------------------------------------------- *)
(* One task under fair scheduling                                          *)
(* ---------------------------------------------------------------------- *)
\* paced and unpaced replies, a call that fails in the dispatcher and a store
\* call that can fail
LiveCalls ==
  { ToolCall("reply_to_user", [NoArgs EXCEPT !.messages = JStr("a")]),
    ToolCall("reply_to_user", [NoArgs EXCEPT !.messages = JArr(<<JStr("a"), JStr("b")>>)]),
    ToolCall("reply_to_user",
             [NoArgs EXCEPT !.messages = JArr(<<JObj("a", 2000)>>), !.timeout = 1000]),
    ToolCall("reply_to_user", [NoArgs EXCEPT !.messages = JArr(<<>>)]),
    ToolCall("get_memory", [NoArgs EXCEPT !.keywords = "k"]),
    ToolCall("bogus", NoArgs) }

Living ==
  [calls |-> LiveCalls, maxCalls |-> MaxCalls, maxMsgs |-> OneMsg,
   inbound |-> {m \in Inbound : m.user = "u1"}]

\* a pending setTimeout: its delay has not elapsed yet
timerPending(wake, time) == time < wake

\* time passes while a task waits for a timer
TimerElapses ==
  /\ \E t \in Tasks : pc[t] = "replySleep" /\ timerPending(wakeAt[t], now)
  /\ now' = now + TickMs
  /\ UNCHANGED <<probe, cooldowns, message_history, memories, nextId, sent, received, gates,
                 pc, taskVars>>

\* the steps of a started task: each one is the return or the failure of the
\* call the task is waiting for
Steps(t) ==
  \/ MarkChannelActive(t) \/ StartTyping(t) \/ SaveUserMessage(t) \/ BuildContext(t)
  \/ FirstCall(t, Living) \/ FinalCall(t) \/ DispatchError(t) \/ getMemory(t)
  \/ replyToUser(t) \/ ReplyWake(t) \/ ReplySend(t) \/ ReplySave(t) \/ ReplyEmpty(t)
  \/ SendReply(t) \/ SaveAssistant(t) \/ Prune(t) \/ Catch(t) \/ OuterCatch(t)

NextLive == Receive("t1", Living) \/ Steps("t1") \/ TimerElapses

\* every awaited call eventually returns or fails, every timer eventually fires
SpecLive ==
  /\ Init /\ [][NextLive]_vars
  /\ WF_vars(Steps("t1"))
  /\ WF_vars(TimerElapses)

(* ---------------------------------------------------------------------- *)
(* C22                                                                     *)
(* ---------------------------------------------------------------------- *)
Running(t) == pc[t] \notin {"idle", "done", "crashed"}

\* run is over: after the tail of handleMessage, or after a catch block ran
\* its fallback reply
Ended(t) ==
  \/ pc[t] = "done" /\ fallbacks[t] = 0
  \/ pc[t] \in {"done", "crashed"} /\ fallbacks[t] >= 1

\* C22: when every awaited call eventually returns or fails and every timer
\* eventually fires, a task started for an inbound message eventually ends,
\* by completing handleMessage or through a catch block and its fallback
\* reply, for every list of tool calls and reply entries.
C22_TaskTerminates == \A t \in Tasks : Running(t) ~> Ended(t)

\* a task that slept in reply_to_user has ended normally, another through the
\* fallback path
C22_Witness ==
  /\ pc["t1"] = "done"
  /\ now >= 2 * TickMs
  /\ Len(sent) >= 2

(* ---------------------------------------------------------------------- *)
(* C23                                                                     *)
(* ---------------------------------------------------------------------- *)
\* the step of handleMessage after generateResponse returned, and the step
\* that saves the assistant turn
FinalSendStep(t) == pc[t] = "reply" /\ pc'[t] # "reply"
AppendStep(t) == pc[t] = "saveAssistant" /\ pc'[t] # "saveAssistant"

AssistantTurn(t) == Row(nextId, msg[t].user, msg[t].channel, "assistant", gen[t].text)

\* an empty text is neither sent nor saved; a non-empty one is handed to the
\* platform, and once delivered goes on to be saved; nothing is sent for a
\* message after its final reply; the tail appends no other row
FinalSend(t) ==
  /\ FinalSendStep(t)
       => /\ message_history' = message_history
          /\ IF gen[t].text = ""
               THEN sent' = sent /\ pc'[t] = "prune"
               ELSE \/ /\ sent' = Append(sent, Delivered(msg[t], gen[t].text, TRUE))
                       /\ pc'[t] = "saveAssistant"
                    \/ sent' = sent /\ pc'[t] = "catch"
  /\ sent' # sent
       => ~ \E p \in 1..Len(sent) : sent[p].to = Last(sent').to /\ sent[p].zwsp
  /\ AppendStep(t) => sent' = sent /\ pc'[t] = "prune"
  /\ pc[t] = "prune" => Len(message_history') <= Len(message_history) /\ sent' = sent

\* C23 as stated: a non-empty finalized text is sent as the last message of the
\* cycle and then appended as exactly one assistant turn; an empty one is
\* neither sent nor appended.
C23_FinalReplyAlwaysPersisted ==
  [][\A t \in Tasks :
       /\ FinalSend(t)
       /\ AppendStep(t) => message_history' = Append(message_history, AssistantTurn(t))]_vars

\* C23: a non-empty finalized text is sent as the last message of the cycle,
\* after every message of reply_to_user, and once delivered it is appended as
\* one assistant turn, or as none when the INSERT fails (the failure is
\* swallowed); an empty text is neither sent nor appended.
C23_FinalReplyBestEffort ==
  [][\A t \in Tasks :
       /\ FinalSend(t)
       /\ AppendStep(t) => \/ message_history' = Append(message_history, AssistantTurn(t))
                           \/ message_history' = message_history]_vars

\* the final reply was delivered after two messages of reply_to_user and its
\* text was appended as an assistant turn
C23_Witness ==
  /\ pc["t1"] = "prune"
  /\ Len(SelectSeq(sent, LAMBDA d : d.to = msg["t1"].id)) >= 3
  /\ Last(sent).zwsp
  /\ message_history # <<>>
  /\ Last(message_history).role = "assistant"
  /\ Last(message_history).content = Last(sent).content

(* ---------------------------------------------------------------------- *)
(* Two tasks over one history table                                        *)
(* ---------------------------------------------------------------------- *)
\* clear_history with and without confirm
SharedCalls ==
  { ToolCall("clear_history", NoArgs),
    ToolCall("clear_history", [NoArgs EXCEPT !.confirm = "true"]) }

\* messages of two users in one channel, each handled by its own task
OneCall == 1

Sharing ==
  [calls |-> SharedCalls, maxCalls |-> OneCall, maxMsgs |-> PairMsgs,
   inbound |-> {m \in Inbound : m.channel = "c1"}]

NextShared ==
  \E t \in Tasks :
    \/ Receive(t, Sharing) \/ MarkChannelActive(t) \/ StartTyping(t) \/ SaveUserMessage(t)
    \/ BuildContext(t) \/ FirstCall(t, Sharing) \/ FinalCall(t) \/ clearHistory(t)
    \/ SendReply(t) \/ SaveAssistant(t) \/ Prune(t) \/ Catch(t) \/ OuterCatch(t)

SpecShared == InitSeeded /\ [][NextShared]_vars

(* ---------------------------------------------------------------------- *)
(* C24                                                                     *)
(* ---------------------------------------------------------------------- *)
RowSet(hist) == {hist[p] : p \in 1..Len(hist)}

\* the steps that may delete rows of the pair of task t: a confirmed
\* clear_history and the prune at the end of handleMessage
MayDelete(t) ==
  \/ DispatchesClear(t) /\ Calls(t)[i[t]].arguments.confirm = "true"
  \/ pc[t] = "prune" /\ pc'[t] = "done"

\* C24: in every step of every interleaving, a history row that is still
\* there after the step is the row it was before (same user, channel, role
\* and content under the same id), no two rows share an id, and a row that is
\* gone was removed by a clear_history with confirm = true or by a prune of a
\* task of the row's own (user, channel) pair.
C24_RowsStable ==
  [][/\ \A r \in RowSet(message_history), q \in RowSet(message_history') :
          r.id = q.id => r = q
     /\ \A p, q \in 1..Len(message_history') :
          message_history'[p].id = message_history'[q].id => p = q
     /\ \A r \in RowSet(message_history) \ RowSet(message_history') :
          \E t \in Tasks : MayDelete(t) /\ OfPair(r, msg[t].user, msg[t].channel)]_vars

\* a row of (u1, c1) has been removed while a row of (u2, c1) written before
\* it and a row written after it are in place
C24_Witness ==
  /\ Row(2, "u2", "c1", "user", "y") \in RowSet(message_history)
  /\ Row(1, "u1", "c1", "user", "x") \notin RowSet(message_history)
  /\ Row(3, "u1", "d1", "assistant", "z") \in RowSet(message_history)
  /\ \E r \in RowSet(message_history) : r.id > 4

(* ---------------------------------------------------------------------- *)
(* Concurrent tasks of one user at the cooldown gate                       *)
(* ---------------------------------------------------------------------- *)
\* a multi-message reply, which goes through the gate
GateCalls ==
  { ToolCall("reply_to_user", [NoArgs EXCEPT !.messages = JArr(<<JStr("a"), JStr("b")>>)]) }

\* t1 is asked for one such reply, t2 for up to MaxCalls of them
GateLists(t) ==
  {l \in SeqsUpTo(GateCalls, MaxCalls) : Len(l) >= 1 /\ (t = "t1" => Len(l) = 1)}

\* the turns saved for two messages "hi" of u1 in c1
GateRows == << Row(1, "u1", "c1", "user", "hi"), Row(2, "u1", "c1", "user", "hi") >>

GateMsg(id) == [id |-> id, user |-> "u1", channel |-> "c1", content |-> "hi", guild |-> TRUE]

\* what each task fetched after saving its own turn
GateContext(t) ==
  buildMessages(getMessageHistory(IF t = "t1" THEN SubSeq(GateRows, 1, 1) ELSE GateRows,
                                  "u1", "c1", historyLimit), "hi")

\* two messages of u1 were received, t1 and t2 have each saved the user turn,
\* built the conversation and got a first response that asks for replies:
\* both are at the head of the tool loop
InitGate ==
  /\ now = 0
  /\ cooldowns = [u \in Users |-> NoNumber]
  /\ message_history = GateRows
  /\ memories = <<>>
  /\ nextId = Len(GateRows) + 1
  /\ sent = <<>>
  /\ received = Len(GateRows)
  /\ gates = <<>>
  /\ pc = [t \in Tasks |-> "loop"]
  /\ msg = [t \in Tasks |-> GateMsg(IF t = "t1" THEN 1 ELSE 2)]
  /\ messages = [t \in Tasks |-> GateContext(t)]
  /\ \E l1 \in GateLists("t1"), l2 \in GateLists("t2") :
       first = [t \in Tasks |->
                  [content |-> "r",
                   tool_calls |-> [present |-> TRUE, list |-> IF t = "t1" THEN l1 ELSE l2]]]
  /\ final = [t \in Tasks |-> NoResponse]
  /\ i = [t \in Tasks |-> 1]
  /\ modelCalls = [t \in Tasks |-> <<ModelCall(TRUE, GateContext(t), TRUE)>>]
  /\ gen = [t \in Tasks |-> NoGen]
  /\ normalizedMessages = [t \in Tasks |-> <<>>]
  /\ j = [t \in Tasks |-> 0]
  /\ wakeAt = [t \in Tasks |-> 0]
  /\ trace = [t \in Tasks |-> <<Ev(0, "model")>>]
  /\ times = [t \in Tasks |-> <<0>>]
  /\ fallbacks = [t \in Tasks |-> 0]
  /\ probe = NoProbe

\* the tool loops of the two tasks, interleaved at every await
NextGate ==
  \/ \E t \in Tasks : replyToUser(t) \/ ReplyWake(t) \/ ReplySend(t) \/ ReplySave(t)
  \/ Tick

SpecGate == InitGate /\ [][NextGate]_vars

(* ---------------------------------------------------------------------- *)
(* C25                                                                     *)
(* ---------------------------------------------------------------------- *)
\* C25: the gate reads and writes the last-used time in one step, so the
\* entry of a user always is the time of the user's last accepted
\* multi-message call, and for every interleaving of the tasks of one user
\* any two accepted multi-message calls are at least 2000 ms apart: no
\* second burst passes the gate within a window.
C25_OnePassPerWindow ==
  /\ \A u \in Users : cooldowns[u] = LastPass(u, Len(gates))
  /\ \A a \in 1..Len(gates) : \A b \in (a + 1)..Len(gates) :
       (gates[a].user = gates[b].user /\ gates[a].ok /\ gates[b].ok)
         => gates[b].at - gates[a].at >= globalCooldown

\* a task of u1 came to the gate while another task of u1 was still sending
\* the reply that had passed it, and was rejected; a later call passed
C25_Witness ==
  \E a, b, c \in 1..Len(gates) :
    /\ a < b /\ b < c
    /\ gates[a].ok /\ ~gates[b].ok /\ gates[c].ok
    /\ gates[a].task # gates[b].task
    /\ gates[a].user = gates[b].user /\ gates[b].user = gates[c].user
    /\ pc[gates[a].task] \in {"replySleep", "replySend", "replySave"}

(* ---------------------------------------------------------------------- *)
(* C26                                                                     *)
(* ---------------------------------------------------------------------- *)
\* a call of a task goes through the cooldown gate in this step
GateStep == Len(gates') = Len(gates) + 1

\* C26: a reply_to_user rejected by the gate leaves the cooldown entries as
\* they are, and a multi-message call that reaches the gate 2000 ms or more
\* after the user's last accepted one (or before any accepted one) passes,
\* whatever number of rejected calls came in between.
C26_RejectionKeepsCooldown ==
  [][GateStep
       => LET g == Last(gates')
              last == LastPass(g.user, Len(gates))
          IN /\ ~g.ok => cooldowns' = cooldowns
             /\ (last = NoNumber \/ g.at - last >= globalCooldown) => g.ok]_vars

\* an accepted call, then a rejected one, then one accepted 2000 ms or more
\* after the first
C26_Witness ==
  /\ Len(gates) >= 3
  /\ gates[1].ok /\ ~gates[2].ok /\ gates[3].ok
  /\ gates[1].user = gates[3].user /\ gates[2].user = gates[3].user
  /\ gates[3].at - gates[1].at >= globalCooldown
  /\ gates[3].at - gates[2].at < globalCooldown

(* ---------------------------------------------------------------------- *)
(* C27                                                                     *)
(* ---------------------------------------------------------------------- *)
\* the step in which the platform send of entry j[t] of the current
\* reply_to_user call of task t fails
SendFails(t) == pc[t] = "replySend" /\ pc'[t] = "loop"

EarlierContents(t) == [e \in 1..(j[t] - 1) |-> normalizedMessages[t][e].content]

Inserted(t) == Count(trace[t], Ev(i[t], "insert"))

\* nothing is undone and nothing more is sent: the entries before the failing
\* one are the last messages sent for the inbound message, the failing entry
\* and the later ones are not sent, the call ends as a failure turn, and the
\* cooldown entry written by the gate of this call stays
FailureKeeps(t) ==
  /\ sent' = sent
  /\ message_history' = message_history
  /\ cooldowns' = cooldowns
  /\ Count(trace[t], Ev(i[t], "send")) = j[t] - 1
  /\ Len(SentContents(t)) >= j[t] - 1
  /\ LastN(SentContents(t), j[t] - 1) = EarlierContents(t)
  /\ i'[t] = i[t] + 1
  /\ FailsWith(t, "UpstreamFailure")
  /\ gated(normalizedMessages[t])
       => \E p \in 1..Len(gates) :
            /\ gates[p].task = t /\ gates[p].message = msg[t].id /\ gates[p].call = i[t]
            /\ gates[p].ok
            /\ cooldowns'[msg[t].user] = gates[p].at

\* the last n history rows are assistant turns of the pair of t with texts of
\* the entries before the failing one
EarlierTurns(t, n) ==
  /\ n <= Len(message_history)
  /\ \A p \in 1..n :
       LET r == LastN(message_history, n)[p]
       IN /\ OfPair(r, msg[t].user, msg[t].channel)
          /\ r.role = "assistant"
          /\ \E e \in 1..(j[t] - 1) : r.content = EarlierContents(t)[e]

\* C27 as stated: when the send of entry k fails, the entries before k are
\* sent and each of them is persisted as an assistant turn, entry k and the
\* later ones are neither sent nor persisted, the call is fed to the model as
\* a failed system turn, and the cooldown written by the gate is kept.
C27_SendFailureKeepsAllTurns ==
  [][\A t \in Tasks :
       SendFails(t)
         => /\ FailureKeeps(t)
            /\ Inserted(t) = j[t] - 1
            /\ EarlierTurns(t, j[t] - 1)
            /\ [p \in 1..(j[t] - 1) |-> LastN(message_history, j[t] - 1)[p].content]
                 = EarlierContents(t)]_vars

\* C27: as above, except that an entry before k is persisted only if its
\* INSERT succeeded: the assistant turns of the call are those of the entries
\* before k whose write did not fail, at most k - 1 of them.
C27_SendFailureKeepsWrittenTurns ==
  [][\A t \in Tasks :
       SendFails(t)
         => /\ FailureKeeps(t)
            /\ Inserted(t) <= j[t] - 1
            /\ EarlierTurns(t, Inserted(t))]_vars

\* the third entry of a gated list failed to send after two entries were
\* sent, one of them without its turn being written
C27_Witness ==
  \E k \in 1..Len(Calls("t1")) :
    /\ Has("t1", Ev(k, "sendfail"))
    /\ Has("t1", Ev(k, "cooldown"))
    /\ Count(trace["t1"], Ev(k, "send")) = 2
    /\ Count(trace["t1"], Ev(k, "insert")) = 1
    /\ cooldowns["u1"] # NoNumber
    /\ IsFailureTurn(Last(messages["t1"]))

====
